---- MODULE Spec2Model ----
(***************************************************************************)
(* Model of the content-acquisition engine of app/scraper.py: the two DOM  *)
(* strategies (TikTokScraper.scrape, FacebookScraper.scrape) with the      *)
(* captcha sentinel and the scroll-convergence loop of each, and the       *)
(* Direct API Client (TikTokAPIScraper.scrape).                            *)
(*                                                                         *)
(* One behaviour is one scrape() invocation.  The browser and the target   *)
(* site are the environment: the captcha widget appears and disappears at  *)
(* any moment (EnvCaptcha), a scroll burst moves or does not move, a       *)
(* driver call that the code does not guard may raise, and the DOM read at *)
(* extraction time is any short stream of comment nodes.                   *)
(***************************************************************************)
EXTENDS Integers, Sequences, FiniteSets, TLC

VARIABLES
    strategy,           \* which scrape() runs: "tiktok", "facebook" or "api"
    headless,           \* BaseScraper.headless
    cookie_data,        \* the cookie payload handed to scrape()
    max_scroll_count,   \* BaseScraper.max_scroll_count, from MAX_SCROLL_COUNT
    pc,                 \* position inside scrape()
    driver,             \* TRUE iff self.driver is not None
    running,            \* browser processes launched by this invocation and still alive
    captcha,            \* what _is_captcha_present() returns if called now
    outcome,            \* how scrape() ended: the returned list or the exception raised
    cause,              \* where the exception that ended scrape() was raised
    no_more_scroll,     \* the failure counter of the scroll loop
    scroll_count,       \* TikTokScraper.scrape's iteration counter
    bursts,             \* bursts performed so far in the scroll loop
    failRun,            \* history: length of the current run of failed bursts
    lastMoved,          \* history: result of the latest burst
    iterChecked,        \* history: the current loop iteration has polled the captcha
    corrective,         \* history: the corrective maneuver ran after the latest burst
    waited,             \* _wait_for_captcha_if_present's local 'waited'
    max_wait_seconds,   \* its parameter
    ret,                \* where scrape() continues when the wait call returns
    rechecks,           \* history: polls made by the wait loop
    sleeps,             \* history: 3-second sleeps made by the wait loop
    captchaHist,        \* history of the challenge since the wait loop was entered
    detected,           \* history: some captcha check of this headless scrape returned True
    sinceDetect,        \* history: what the code did after that first positive check
    innerDetected,      \* history: the check at line 586 returned True with headless
    container_cache,    \* FacebookScraper.scrape's cached scroll container
    comment_elements,   \* the comment nodes found by the extraction pass
    comments,           \* the result list
    data_set,           \* the dedup set of (username, content) keys
    passes,             \* history: extraction passes run
    notified,           \* history: the totals handed to the progress callback
    session,            \* TikTokAPIScraper.session: "open" or "closed"
    max_comments,       \* TikTokAPIScraper.scrape's parameter
    all_comments,       \* its result list
    cursor,             \* its page cursor
    data,               \* its local 'data': what get_comments returned last
    sent,               \* history: the cursors of the page requests issued so far
    chrome_options,     \* _setup_driver's local: the launch profile being built
    payload,            \* the cookie payload handed to a cookie normaliser
    faults,             \* which jar operations the browser refuses during the call
    jar,                \* the browser's cookie jar
    jar_before,         \* history: the jar when _apply_cookies was called
    jar_log,            \* history: the jar operations _apply_cookies performed
    cookies,            \* TikTokAPIScraper.cookies
    call,               \* which normaliser has run: "_apply_cookies" or "_setup_session"
    result,             \* what it returned
    grabber,            \* the TikTokCookieGrabber singleton: its driver, status, cookies
    browsers,           \* the grabber browsers that were launched and not quit
    launches,           \* history: browsers launched by the grabber so far
    reply,              \* the grabber method called last and what it returned
    started_by,         \* history: the user whose request launched each browser
    calls,              \* concurrent requests to the grabber endpoints, each with its position
    users,              \* the cookie columns of each user's row in the database
    scraping_progress,  \* routes.scraping_progress: a slot per user id
    req,                \* the requests to the scrape endpoint, each with its position
    harvest             \* history: the last successful call of the grab endpoint

inputVars   == <<strategy, headless, cookie_data, max_scroll_count>>
driverVars  == <<driver, running>>
loopVars    == <<no_more_scroll, scroll_count, bursts, failRun, lastMoved, iterChecked,
                 corrective, container_cache>>
waitVars    == <<waited, max_wait_seconds, ret, rechecks, sleeps, captchaHist>>
detectVars  == <<detected, sinceDetect, innerDetected>>
extractVars == <<comment_elements, comments, data_set, passes, notified>>
endVars     == <<outcome, cause>>
apiVars     == <<session, max_comments, all_comments, cursor, data, sent>>
cookieVars  == <<payload, faults, jar, jar_before, jar_log, cookies, call, result>>
grabberVars == <<grabber, browsers, launches, reply, started_by, calls>>
routeVars   == <<users, scraping_progress, req, harvest>>
sideVars    == <<cookieVars, grabberVars, routeVars>>
domVars     == <<driverVars, captcha, loopVars, waitVars, detectVars, extractVars>>

vars == <<inputVars, pc, driverVars, captcha, endVars, loopVars, waitVars,
          detectVars, extractVars, apiVars, chrome_options, sideVars>>

----------------------------------------------------------------------------
(* Bounds *)

\* successful bursts the environment grants before the scroll source stops growing
MaxBursts == 3
\* comment nodes in the DOM at extraction time
MaxNodes == 3
\* max_wait_seconds is drawn from 1..MaxWaitSmall and the default
MaxWaitSmall == 7

(* Program constants *)

DefaultMaxWait == 120     \* max_wait_seconds=120
PollInterval == 3         \* time.sleep(3); waited += 3
ConvergenceLimit == 3     \* if no_more_scroll >= 3: break
DefaultMaxScrollCount == 10   \* int(os.getenv('MAX_SCROLL_COUNT', 10))

MaxWaitChoices == (1..MaxWaitSmall) \cup {DefaultMaxWait}

\* the values of MAX_SCROLL_COUNT tried in the scroll loop: a small one and the default
MaxScrollChoices == {MaxBursts, DefaultMaxScrollCount}

CeilDiv(a, b) == (a + b - 1) \div b

----------------------------------------------------------------------------
(* Exceptions and the except clauses of scrape() *)

TypedFailures == {"BotDetectedException", "URLNotFoundException", "CaptchaDetectedException"}

\* a driver call outside any try/except raises a selenium WebDriverException
\* (StaleElementReferenceException is one) or, when the driver process is gone,
\* a plain Exception of the HTTP layer
DriverFaults == {"WebDriverException", "Exception"}

NoOutcome == [kind |-> "none", msg |-> "none"]
Returned  == [kind |-> "returned", msg |-> "none"]

\* except (BotDetected, URLNotFound, CaptchaDetected): raise
\* except WebDriverException: raise ScraperException("Loi WebDriver: ...")
\* except Exception: raise ScraperException("Loi khong xac dinh: ...")
Handle(cls, msg) ==
    IF cls \in TypedFailures THEN [kind |-> cls, msg |-> msg]
    ELSE IF cls = "WebDriverException"
         THEN [kind |-> "ScraperException", msg |-> "Loi WebDriver"]
         ELSE [kind |-> "ScraperException", msg |-> "Loi khong xac dinh"]

\* BaseScraper.close(): if self.driver: quit it; self.driver = None
RunningAfterClose(d, r) == IF d THEN r - 1 ELSE r

\* scrape() ends with self.driver = d and r browser processes alive: the finally
\* clause runs close()
ExitWith(out, why, d, r) ==
    /\ pc' = "done"
    /\ outcome' = out
    /\ cause' = why
    /\ running' = RunningAfterClose(d, r)
    /\ driver' = FALSE

Exit(out, why) == ExitWith(out, why, driver, running)

Raise(cls, msg, why) == Exit(Handle(cls, msg), why)

----------------------------------------------------------------------------
\* the shapes of cookie payload a caller passes: nothing, a list of cookies (bare
\* or in an envelope), a single {name, value} object, a string that is not JSON
CookiePayloads == {"none", "list", "legacy", "text"}

DomStrategies == {"tiktok", "facebook"}

Strategies == DomStrategies \cup {"api"}

\* no launch profile is being built
NoOptions ==
    [proxy |-> "none", extension |-> FALSE, proxy_server |-> "none",
     prefix |-> "none", scheme |-> "none", disable_extensions |-> FALSE]

\* no cookie normaliser has been called
CookieIdle ==
    /\ payload = [shape |-> "none", cookies |-> <<>>]
    /\ faults = [delete |-> FALSE, add |-> {}]
    /\ jar = {}
    /\ jar_before = {}
    /\ jar_log = <<>>
    /\ cookies = {}
    /\ call = "none"
    /\ result = "none"

\* requests to the cookie-grabber endpoints handled at the same time
MaxThreads == 2

Threads == 1..MaxThreads

\* the authenticated callers
UserIds == {"u1", "u2"}

\* a request thread that is in no grabber method: local is the browser that
\* _setup_visible_browser returned to it
IdleCall == [op |-> "none", pc |-> "idle", local |-> 0, user |-> "none"]

\* TikTokCookieGrabber.__init__, lines 2453-2456: driver and cookies are None
\* (0: no browser, no harvest), status is 'idle'; no method was called
GrabberIdle ==
    /\ grabber = [driver |-> 0, status |-> "idle", cookies |-> 0]
    /\ browsers = {}
    /\ launches = 0
    /\ reply = [op |-> "none", success |-> FALSE, touched |-> FALSE]
    /\ started_by = <<>>
    /\ calls = [t \in Threads |-> IdleCall]

\* requests to the scrape endpoint in one behaviour
MaxRequests == 2

Requests == 1..MaxRequests

\* a cookie set, by where it comes from: none, a file the user uploaded, or
\* the session of a grabber browser
NoCookies == [src |-> "none", browser |-> 0]

\* models.py 63-65: tiktok_cookie_data is NULL, use_tiktok_cookie is False
NoCookieRow == [tiktok_cookie_data |-> NoCookies, use_tiktok_cookie |-> FALSE]

\* scraping_progress has no key for the user
NoSlot == [total |-> 0, status |-> "idle", message |-> ""]

NewRequest(u) == [user |-> u, pc |-> "new", cookie_data |-> NoCookies, total |-> 0]

\* no request was made, nobody has harvested
RouteIdle ==
    /\ users = [u \in UserIds |-> NoCookieRow]
    /\ scraping_progress = [u \in UserIds |-> NoSlot]
    /\ req = [r \in Requests |-> NewRequest("u1")]
    /\ harvest = [user |-> "none", cookies |-> NoCookies]

Init ==
    /\ strategy \in Strategies
    /\ headless \in (IF strategy = "api" THEN {TRUE} ELSE BOOLEAN)
    /\ cookie_data \in CookiePayloads
    /\ max_scroll_count = DefaultMaxScrollCount
    /\ pc = "start"
    /\ driver = FALSE
    /\ running = 0
    /\ captcha = FALSE
    /\ outcome = NoOutcome
    /\ cause = "none"
    /\ no_more_scroll = 0
    /\ scroll_count = 0
    /\ bursts = 0
    /\ failRun = 0
    /\ lastMoved = FALSE
    /\ iterChecked = FALSE
    /\ corrective = FALSE
    /\ waited = 0
    /\ max_wait_seconds = 0
    /\ ret = "none"
    /\ rechecks = 0
    /\ sleeps = 0
    /\ captchaHist = "none"
    /\ detected = FALSE
    /\ sinceDetect = {}
    /\ innerDetected = FALSE
    /\ container_cache = "none"
    /\ comment_elements = <<>>
    /\ comments = <<>>
    /\ data_set = {}
    /\ passes = 0
    /\ notified = <<>>
    /\ session = "open"
    /\ max_comments = 0
    /\ all_comments = <<>>
    /\ cursor = 0
    /\ data = [has_data |-> FALSE, status_code |-> -1, status_msg |-> "", comments |-> <<>>,
               has_more |-> 0, cursor |-> -1]
    /\ sent = <<>>
    /\ chrome_options = NoOptions
    /\ CookieIdle
    /\ GrabberIdle
    /\ RouteIdle

----------------------------------------------------------------------------
(* _setup_driver *)

\* self.proxy: none, host:port, user:pass@host:port, or a userinfo with an empty
\* user name or an empty password (user@host:port, apikey:@host:port)
ProxyKinds == {"none", "plain", "auth", "partial_userinfo"}

\* lines 227-313: the launch profile for a proxy.  proxy_server is the
\* --proxy-server argument: "none" (not set), "host_port" or "userinfo_host_port"
\* (the proxy string with its userinfo)
LaunchProfile(proxy) ==
    CASE proxy = "none"  -> [proxy |-> proxy, extension |-> FALSE, proxy_server |-> "none"]
      [] proxy = "plain" -> [proxy |-> proxy, extension |-> FALSE, proxy_server |-> "host_port"]
      [] proxy = "auth"  -> [proxy |-> proxy, extension |-> TRUE, proxy_server |-> "none"]
      [] proxy = "partial_userinfo" ->
            [proxy |-> proxy, extension |-> FALSE, proxy_server |-> "userinfo_host_port"]

\* the schemes a proxy string may start with (line 232)
ProxySchemes == {"http", "https", "socks4", "socks5"}

\* how self.proxy starts: with one of the schemes, or with the host ("bare")
ProxyPrefixes(proxy) == IF proxy = "none" THEN {"none"} ELSE ProxySchemes \cup {"bare"}

\* lines 232-233: the scheme of proxy_str, http when self.proxy has none
SchemeOf(prefix) == IF prefix = "bare" THEN "http" ELSE prefix

\* the scheme the browser is told to use: the extension's background.js
\* says scheme: "http" (line 273); --proxy-server carries proxy_str (308, 312)
ConfiguredScheme(proxy, prefix) ==
    IF proxy = "none" THEN "none"
    ELSE IF LaunchProfile(proxy).extension THEN "http"
    ELSE SchemeOf(prefix)

\* lines 176-189: --disable-extensions is among the arguments added when
\* self.headless is set
DisableExtensions(h) == h

\* lines 176-313: the launch options for self.headless and self.proxy
LaunchOptions(proxy, prefix, h) ==
    [proxy |-> proxy,
     extension |-> LaunchProfile(proxy).extension,
     proxy_server |-> LaunchProfile(proxy).proxy_server,
     prefix |-> prefix,
     scheme |-> ConfiguredScheme(proxy, prefix),
     disable_extensions |-> DisableExtensions(h)]

\* How a call of _setup_driver can go.  The proxy-auth extension is packaged
\* only for a proxy with credentials (lines 248-304); the driver binary is
\* resolved at 322-336, the browser is launched at 340 and the first script
\* is injected, outside any try, at 358.
SetupResults(proxy) ==
    {"ok", "no_driver", "launch_failed", "post_launch_failed"}
        \cup (IF LaunchProfile(proxy).extension THEN {"extension_packaging"} ELSE {})

\* _setup_driver: the exception it raises ("none": it returns the driver) and
\* whether the browser process was launched before that
SetupDriver(res) ==
    CASE res = "ok"                  -> [exc |-> "none", launched |-> TRUE]
      [] res = "extension_packaging" -> [exc |-> "Exception", launched |-> FALSE]
      [] res = "no_driver"           -> [exc |-> "Exception", launched |-> FALSE]
      [] res = "launch_failed"       -> [exc |-> "WebDriverException", launched |-> FALSE]
      [] res = "post_launch_failed"  -> [exc |-> "WebDriverException", launched |-> TRUE]

\* _setup_driver, lines 148-313, called at 1412 and 2177: the launch options
\* are built; packaging the proxy-auth extension can fail
BuildOptions ==
    /\ pc = "start"
    /\ strategy \in DomStrategies
    /\ \E proxy \in ProxyKinds :
         \/ /\ \E prefix \in ProxyPrefixes(proxy) :
                  chrome_options' = LaunchOptions(proxy, prefix, headless)
            /\ pc' = "launch"
            /\ UNCHANGED <<driverVars, endVars>>
         \/ /\ "extension_packaging" \in SetupResults(proxy)
            /\ chrome_options' = NoOptions
            /\ ExitWith(Handle(SetupDriver("extension_packaging").exc, "none"), "setup",
                        driver, running)
    /\ UNCHANGED <<inputVars, sideVars, apiVars, captcha, loopVars, waitVars, detectVars,
                   extractVars>>

\* _setup_driver, lines 315-371, and the assignment self.driver = ... of
\* scrape(), lines 1407-1421 and 2173-2186
Setup ==
    /\ pc = "launch"
    /\ \E res \in SetupResults(chrome_options.proxy) \ {"extension_packaging"} :
         LET s == SetupDriver(res)
             r == IF s.launched THEN running + 1 ELSE running
         IN  IF s.exc = "none"
             THEN /\ driver' = TRUE
                  /\ running' = r
                  /\ pc' = "cookies"
                  /\ UNCHANGED endVars
             ELSE ExitWith(Handle(s.exc, "none"), "setup", driver, r)
    /\ chrome_options' = NoOptions
    /\ UNCHANGED <<inputVars, sideVars, apiVars, captcha, loopVars, waitVars,
                   detectVars, extractVars>>

\* _apply_cookies: a list (or an envelope holding one) is applied, and any
\* exception inside is turned into False; every other payload gives False
ApplyCookiesResults(shape) == IF shape = "list" THEN BOOLEAN ELSE {FALSE}

\* scrape(), lines 1423-1438 and 2188-2200
ApplyCookies ==
    /\ pc = "cookies"
    /\ \/ /\ cookie_data = "none"
          /\ pc' = "navigate"
          /\ UNCHANGED <<driverVars, endVars>>
       \/ /\ cookie_data # "none"
          /\ \E ok \in ApplyCookiesResults(cookie_data) :
                \* get(home page); on success refresh()
                \/ /\ pc' = "navigate"
                   /\ UNCHANGED <<driverVars, endVars>>
                \/ \E f \in DriverFaults : Raise(f, "none", "scrape")
    /\ UNCHANGED <<inputVars, sideVars, chrome_options, apiVars, captcha, loopVars,
                   waitVars, detectVars, extractVars>>

\* the statement after driver.get(url) and the page-load waits: TikTok polls the
\* captcha itself (1467), Facebook calls _wait_for_captcha_if_present (2231)
AfterNavigate(s) == IF s = "tiktok" THEN "precheck" ELSE "w_entry"

\* scrape(), lines 1440-1463 and 2202-2228: driver.get(url) and the guarded waits
Navigate ==
    /\ pc = "navigate"
    /\ \/ /\ pc' = AfterNavigate(strategy)
          /\ ret' = IF strategy = "facebook" THEN "fb_prep" ELSE "none"
          /\ UNCHANGED <<driverVars, endVars>>
       \/ /\ \E f \in DriverFaults : Raise(f, "none", "scrape")
          /\ UNCHANGED ret
    /\ UNCHANGED <<inputVars, sideVars, chrome_options, apiVars, captcha, loopVars,
                   detectVars, extractVars,
                   waited, max_wait_seconds, rechecks, sleeps, captchaHist>>

----------------------------------------------------------------------------
(* The environment: the challenge widget appears or disappears *)

WaitLoopPcs == {"w_loop", "w_sleep"}

\* the history of the challenge during a wait loop: "present" since the loop was
\* entered, "cleared" (absent since a moment at which fewer than max_wait_seconds
\* had been waited), "late" (absent only since the ceiling was reached) or
\* "recurred" (present again)
HistAfterToggle(h, wasPresent, w, m) ==
    IF wasPresent THEN (IF w < m THEN "cleared" ELSE "late") ELSE "recurred"

EnvCaptcha ==
    /\ strategy \in DomStrategies
    /\ pc \notin {"start", "launch", "done"}
    /\ captcha' = ~captcha
    /\ captchaHist' = IF pc \in WaitLoopPcs
                      THEN HistAfterToggle(captchaHist, captcha, waited, max_wait_seconds)
                      ELSE captchaHist
    /\ UNCHANGED <<inputVars, sideVars, chrome_options, apiVars, pc, driverVars,
                   endVars, loopVars, detectVars, extractVars,
                   waited, max_wait_seconds, ret, rechecks, sleeps>>

----------------------------------------------------------------------------
(* Captcha sentinel *)

\* history kept for a headless scrape: the first positive captcha check, and
\* what the code does from then on (evs: what follows the poll p in the same step)
DetectedAfter(p) == detected \/ (headless /\ p)

SinceAfter(p, evs) ==
    LET s1 == IF detected THEN sinceDetect \cup {"repoll"} ELSE sinceDetect
    IN  IF DetectedAfter(p) THEN s1 \cup evs ELSE s1

NotePoll(p, evs) ==
    /\ detected' = DetectedAfter(p)
    /\ sinceDetect' = SinceAfter(p, evs)

\* TikTokScraper.scrape, lines 1467-1484: where the code goes after the poll of
\* stage 1 (line 1467), 2 (line 1473) or 3 (line 1481) returned p
PreCheckNext(stage, p, hasCookie) ==
    IF ~p THEN "loop_head"
    ELSE IF stage = 1 THEN (IF hasCookie THEN "precheck2" ELSE "w_entry")
    ELSE IF stage = 2 THEN "precheck3"
    ELSE "w_entry"

\* line 1467: if self._is_captcha_present(); with cookies: time.sleep(3)
PreCheck1 ==
    /\ pc = "precheck"
    /\ LET p == captcha
           nxt == PreCheckNext(1, p, cookie_data # "none")
       IN  /\ pc' = nxt
           /\ ret' = IF nxt = "w_entry" THEN "loop_head" ELSE ret
           /\ NotePoll(p, IF nxt = "precheck2" THEN {"sleep"} ELSE {})
    /\ innerDetected' = innerDetected
    /\ UNCHANGED <<inputVars, sideVars, chrome_options, apiVars, driverVars, captcha,
                   endVars, loopVars, extractVars,
                   waited, max_wait_seconds, rechecks, sleeps, captchaHist>>

\* line 1473: second poll; if still present: refresh(), sleeps, click again
PreCheck2 ==
    /\ pc = "precheck2"
    /\ LET p == captcha
           nxt == PreCheckNext(2, p, cookie_data # "none")
       IN  \/ /\ pc' = nxt
              /\ NotePoll(p, IF nxt = "precheck3" THEN {"refresh", "sleep"} ELSE {})
              /\ UNCHANGED <<driverVars, endVars>>
           \/ /\ p
              /\ NotePoll(p, {"refresh"})
              /\ \E f \in DriverFaults : Raise(f, "none", "scrape")
    /\ innerDetected' = innerDetected
    /\ UNCHANGED <<inputVars, sideVars, chrome_options, apiVars, captcha, loopVars,
                   waitVars, extractVars>>

\* line 1481: last poll; if still present: _wait_for_captcha_if_present
PreCheck3 ==
    /\ pc = "precheck3"
    /\ LET p == captcha
           nxt == PreCheckNext(3, p, cookie_data # "none")
       IN  /\ pc' = nxt
           /\ ret' = IF nxt = "w_entry" THEN "loop_head" ELSE ret
           /\ NotePoll(p, {})
    /\ innerDetected' = innerDetected
    /\ UNCHANGED <<inputVars, sideVars, chrome_options, apiVars, driverVars, captcha,
                   endVars, loopVars, extractVars,
                   waited, max_wait_seconds, rechecks, sleeps, captchaHist>>

\* faulty variant: the headless flag is not consulted, the wait loop is entered
WaitEntryDecisionAlwaysWaits(p, h) ==
    IF ~p THEN "return" ELSE "wait"

\* _wait_for_captcha_if_present, lines 586-635: the poll at entry returned p
WaitEntryDecision(p, h) ==
    IF ~p THEN "return" ELSE IF h THEN "raise" ELSE "wait"

\* faulty variant: 'while waited <= max_wait_seconds'
WaitLoopDecisionInclusive(w, m, p) ==
    IF w <= m THEN (IF ~p THEN "return" ELSE "sleep") ELSE "raise"

\* _wait_for_captcha_if_present, lines 638-651: waited, the ceiling and the poll
\* (made only when waited < max_wait_seconds) decide the loop's next step
WaitLoopDecision(w, m, p) ==
    IF w < m THEN (IF ~p THEN "return" ELSE "sleep") ELSE "raise"

\* the wait call returns: its locals are gone
WaitReturns ==
    /\ pc' = ret
    /\ ret' = "none"
    /\ waited' = 0
    /\ max_wait_seconds' = 0
    /\ rechecks' = 0
    /\ sleeps' = 0
    /\ captchaHist' = "none"

WaitEntry ==
    /\ pc = "w_entry"
    /\ LET p == captcha
           d == WaitEntryDecision(p, headless)
       IN  /\ NotePoll(p, {})
           /\ innerDetected' = (innerDetected \/ (headless /\ p))
           /\ \/ /\ d = "return"
                 /\ WaitReturns
                 /\ UNCHANGED <<driverVars, endVars>>
              \/ /\ d = "raise"
                 /\ Raise("CaptchaDetectedException", "captcha_headless", "captcha")
                 /\ UNCHANGED waitVars
              \/ /\ d = "wait"
                 /\ pc' = "w_loop"
                 /\ waited' = 0
                 /\ \E m \in MaxWaitChoices : max_wait_seconds' = m
                 /\ rechecks' = 0
                 /\ sleeps' = 0
                 /\ captchaHist' = "present"
                 /\ UNCHANGED <<ret, driverVars, endVars>>
    /\ UNCHANGED <<inputVars, sideVars, chrome_options, apiVars, captcha, loopVars,
                   extractVars>>

\* one evaluation of 'while waited < max_wait_seconds' and, inside, of the poll
WaitLoop ==
    /\ pc = "w_loop"
    /\ LET p == captcha
           d == WaitLoopDecision(waited, max_wait_seconds, p)
       IN  \/ /\ d = "return"          \* time.sleep(2); return False
              /\ WaitReturns
              /\ UNCHANGED <<driverVars, endVars>>
           \/ /\ d = "sleep"
              /\ pc' = "w_sleep"
              /\ rechecks' = rechecks + 1
              /\ UNCHANGED <<waited, max_wait_seconds, ret, sleeps, captchaHist,
                             driverVars, endVars>>
           \/ /\ d = "raise"
              /\ Raise("CaptchaDetectedException", "captcha_timeout", "captcha")
              /\ UNCHANGED waitVars
    /\ UNCHANGED <<inputVars, sideVars, chrome_options, apiVars, captcha, loopVars,
                   detectVars, extractVars>>

\* time.sleep(3); waited += 3
WaitSleep ==
    /\ pc = "w_sleep"
    /\ waited' = waited + PollInterval
    /\ sleeps' = sleeps + 1
    /\ pc' = "w_loop"
    /\ UNCHANGED <<inputVars, sideVars, chrome_options, apiVars, driverVars, captcha,
                   endVars, loopVars, detectVars,
                   extractVars, max_wait_seconds, ret, rechecks, captchaHist>>

----------------------------------------------------------------------------
(* Scroll-convergence loop *)

\* FacebookScraper.scrape, lines 2233-2245: _switch_to_all_comments (guarded),
\* window.scrollTo(0, 800) (not guarded), no_more_scroll = 0, container_cache = None
FbPrepare ==
    /\ pc = "fb_prep"
    /\ \/ /\ pc' = "loop_head"
          /\ UNCHANGED <<driverVars, endVars>>
       \/ \E f \in DriverFaults : Raise(f, "none", "scrape")
    /\ UNCHANGED <<inputVars, sideVars, chrome_options, apiVars, captcha, loopVars,
                   waitVars, detectVars, extractVars>>

\* TikTokScraper.scrape, lines 1489-1492: the periodic captcha poll of an iteration
TikTokLoopHead ==
    /\ pc = "loop_head"
    /\ strategy = "tiktok"
    /\ LET p == captcha
       IN  /\ pc' = IF p THEN "w_entry" ELSE "burst"
           /\ ret' = IF p THEN "burst" ELSE ret
           /\ NotePoll(p, {})
    /\ iterChecked' = TRUE
    /\ innerDetected' = innerDetected
    /\ UNCHANGED <<inputVars, sideVars, chrome_options, apiVars, driverVars, captcha,
                   endVars, extractVars,
                   no_more_scroll, scroll_count, bursts, failRun, lastMoved, corrective,
                   container_cache, waited, max_wait_seconds, rechecks, sleeps, captchaHist>>

\* what the browser says of the cached container at line 2255
ContainerStates(c) == IF c = "none" THEN {"none"} ELSE {"displayed", "hidden", "detached"}

\* FacebookScraper.scrape, lines 2255-2256: the cached container is kept while
\* it is displayed; otherwise _find_fb_scroll_container scans again and returns
\* an element or None.  is_displayed() on a detached element raises
\* StaleElementReferenceException outside any try.
FbLoopHead ==
    /\ pc = "loop_head"
    /\ strategy = "facebook"
    /\ \E st \in ContainerStates(container_cache) :
         \/ /\ st = "displayed"
            /\ pc' = "burst"
            /\ UNCHANGED <<container_cache, driverVars, endVars>>
         \/ /\ st \in {"none", "hidden"}
            /\ \E found \in {"none", "el"} : container_cache' = found
            /\ pc' = "burst"
            /\ UNCHANGED <<driverVars, endVars>>
         \/ /\ st = "detached"
            /\ Raise("WebDriverException", "none", "scrape")
            /\ UNCHANGED container_cache
    /\ UNCHANGED <<inputVars, sideVars, chrome_options, apiVars, captcha, waitVars,
                   detectVars, extractVars,
                   no_more_scroll, scroll_count, bursts, failRun, lastMoved, iterChecked,
                   corrective>>

\* faulty variant: a burst that moved leaves the counter as it is
NextNoMoreScrollNoReset(n, moved) == IF moved THEN n ELSE n + 1

\* the failure counter after a burst: lines 1500-1510 and 2258-2274
NextNoMoreScroll(n, moved) == IF moved THEN 0 ELSE n + 1

\* faulty variant: the loop breaks one failure early
ConvergedEarly(n) == n >= ConvergenceLimit - 1

\* lines 1512 and 2276: if no_more_scroll >= 3: break
Converged(n) == n >= ConvergenceLimit

\* lines 1504 and 2262: the corrective maneuver (scroll back, then forward) runs
\* after a failed burst while the counter is below 3; Facebook needs a container
Corrective(s, n, moved, c) ==
    /\ ~moved
    /\ n < ConvergenceLimit
    /\ (s = "facebook" => c # "none")

\* the results a burst can report: _tiktok_scroll_burst / _fb_scroll_burst return
\* False on any error, and _fb_scroll_burst returns False without a container.
\* The scroll source grows for at most MaxBursts bursts.
BurstResults(s, c, b) ==
    IF b >= MaxBursts \/ (s = "facebook" /\ c = "none") THEN {FALSE} ELSE BOOLEAN

\* one burst and the bookkeeping after it: lines 1495-1514 and 2257-2278
Burst ==
    /\ pc = "burst"
    /\ \E moved \in BurstResults(strategy, container_cache, bursts) :
         LET n == NextNoMoreScroll(no_more_scroll, moved)
         IN  /\ no_more_scroll' = n
             /\ lastMoved' = moved
             /\ failRun' = IF moved THEN 0 ELSE failRun + 1
             /\ \/ /\ pc' = IF Converged(n) THEN "extract" ELSE "loop_head"
                   \* scroll_count is not read after the loop
                   /\ bursts' = IF Converged(n) THEN 0 ELSE bursts + 1
                   /\ corrective' = (~Converged(n)
                                        /\ Corrective(strategy, n, moved, container_cache))
                   /\ scroll_count' = IF strategy = "tiktok" /\ ~Converged(n)
                                      THEN scroll_count + 1 ELSE 0
                   /\ UNCHANGED <<driverVars, endVars>>
                \/ /\ Corrective(strategy, n, moved, container_cache)
                   /\ \E f \in DriverFaults : Raise(f, "none", "scrape")
                   /\ corrective' = FALSE
                   /\ UNCHANGED <<bursts, scroll_count>>
    /\ iterChecked' = FALSE
    /\ UNCHANGED <<inputVars, sideVars, chrome_options, apiVars, captcha, waitVars,
                   detectVars, extractVars, container_cache>>

----------------------------------------------------------------------------
(* DOM comment extractor *)

\* a TikTok comment node: the text of the element and the user id taken from
\* the nearest profile link ("Unknown" when none is found); "stale": reading the
\* node raises
TikTokNodes ==
    [kind : {"comment"}, user : {"@u1", "Unknown"}, text : {"", "a", "b"}]
        \cup {[kind |-> "stale", user |-> "Unknown", text |-> ""]}

\* a Facebook comment node: the lines of item.text, the alt texts of the emoji
\* images, the user id taken from its links; "reply": it has a reply-context
\* ancestor; "stale": reading the node raises
\* <<lines, emoji>>: nothing at all, a name and a label only, the same with an
\* emoji image, a name with a text line
FbShapes ==
    {<< <<>>, <<>> >>,
     << <<"Ann", "Like">>, <<>> >>,
     << <<"Ann", "Like">>, <<"smile">> >>,
     << <<"Ann", "hi", "Like">>, <<>> >>}

FbNodes ==
    {[kind |-> "comment", user |-> "ann", lines |-> sh[1], emoji |-> sh[2]] :
        sh \in FbShapes}
        \cup {[kind |-> "comment", user |-> "Unknown", lines |-> <<"Ann", "hi", "Like">>,
                emoji |-> <<>>]}
        \cup {[kind |-> k, user |-> "Unknown", lines |-> <<>>, emoji |-> <<>>] :
                k \in {"reply", "stale"}}

NodesOf(s) == IF s = "tiktok" THEN TikTokNodes ELSE FbNodes

\* every list of at most MaxNodes nodes that find_elements can return
Streams(s) == UNION {[1..n -> NodesOf(s)] : n \in 0..MaxNodes}

\* _is_junk_line: UI labels and bare time stamps
JunkLines == {"Like", "Reply", "Share", "2h", "Just now"}

IsJunkLine(line) == line \in JunkLines

MediaPlaceholder == <<"[Anh/Sticker/GIF]">>

\* a line of white space only
IsBlank(line) == line = ""

\* str.strip() on the joined text: the blank parts at either end go, those in
\* between stay
Strip(parts) ==
    LET idx == {i \in 1..Len(parts) : ~IsBlank(parts[i])}
    IN  IF idx = {} THEN <<>>
        ELSE SubSeq(parts, CHOOSE i \in idx : \A j \in idx : i <= j,
                           CHOOSE i \in idx : \A j \in idx : i >= j)

\* faulty variant: the first surviving line is kept as content
FbContentKeepsFirst(node) ==
    LET clean_lines == SelectSeq(node.lines, LAMBDA l : ~IsJunkLine(l))
        final_content == Strip(clean_lines \o node.emoji)
    IN  IF final_content = <<>> THEN MediaPlaceholder ELSE final_content

\* FacebookScraper.scrape, lines 2327-2352: the content of a node, as the list of
\* its parts (the surviving lines after the first, then the emoji alt texts);
\* line 2347: final_content = (comment_content + " " + emoji_text).strip()
FbContent(node) ==
    LET clean_lines == SelectSeq(node.lines, LAMBDA l : ~IsJunkLine(l))
        comment_content == IF Len(clean_lines) >= 2 THEN Tail(clean_lines) ELSE <<>>
        final_content == Strip(comment_content \o node.emoji)
    IN  IF final_content = <<>> THEN MediaPlaceholder ELSE final_content

\* the record built from one node, as a set: empty when the node is skipped
\* (TikTok 1526-1530 and 1644-1647; Facebook 2293-2294, 2328-2330, 2417-2420)
NodeRecords(s, node) ==
    IF node.kind # "comment" THEN {}
    ELSE IF s = "tiktok"
         THEN IF node.text = "" THEN {}
              ELSE {[username |-> node.user, content |-> node.text,
                     timestamp |-> "N/A", likes |-> 0]}
         ELSE IF node.lines = <<>> /\ node.emoji = <<>> THEN {}
              ELSE {[username |-> node.user, content |-> FbContent(node), likes |-> 0]}

\* unique_key = (user_id, content)
KeyOf(rec) == <<rec.username, rec.content>>

\* faulty variant: the record is appended without looking at the dedup set
AppendAlways(acc, rec) ==
    [comments |-> Append(acc.comments, rec),
     data_set |-> acc.data_set \cup {KeyOf(rec)}]

\* lines 1630-1638 and 2401-2409: append the record unless its key was seen
AppendIfNew(acc, rec) ==
    IF KeyOf(rec) \in acc.data_set THEN acc
    ELSE [comments |-> Append(acc.comments, rec),
          data_set |-> acc.data_set \cup {KeyOf(rec)}]

RECURSIVE ExtractFrom(_, _, _, _)
\* the for loop over comment_elements, from node i on
ExtractFrom(s, nodes, i, acc) ==
    IF i > Len(nodes) THEN acc
    ELSE LET recs == NodeRecords(s, nodes[i])
         IN  ExtractFrom(s, nodes, i + 1,
                 IF recs = {} THEN acc ELSE AppendIfNew(acc, CHOOSE r \in recs : TRUE))

ExtractAll(s, nodes) == ExtractFrom(s, nodes, 1, [comments |-> <<>>, data_set |-> {}])

\* faulty variant: the callback is called at every record appended
NotifyTotalsEach(acc) == [i \in 1..Len(acc.comments) |-> i]

\* lines 1649-1651 and 2422-2424: after the for loop, if count_new > 0,
\* _notify_progress(len(comments), ...) is called once
NotifyTotals(acc) == IF Len(acc.comments) > 0 THEN <<Len(acc.comments)>> ELSE <<>>

\* the extraction pass and the return: lines 1516-1654 and 2280-2427.
\* TikTok's find_elements is guarded; Facebook's _find_comment_elements is not.
Extract ==
    /\ pc = "extract"
    /\ \/ \E nodes \in Streams(strategy) :
            LET acc == ExtractAll(strategy, nodes)
            IN  /\ comment_elements' = nodes
                /\ comments' = acc.comments
                /\ data_set' = acc.data_set
                /\ passes' = passes + 1
                /\ notified' = notified \o NotifyTotals(acc)
                /\ Exit(Returned, "none")
       \/ /\ strategy = "facebook"
          /\ \E f \in DriverFaults : Raise(f, "none", "scrape")
          /\ UNCHANGED extractVars
    /\ UNCHANGED <<inputVars, sideVars, chrome_options, apiVars, captcha, loopVars,
                   waitVars, detectVars>>

----------------------------------------------------------------------------
(* Direct API Client: TikTokAPIScraper *)

\* largest max_comments tried
MaxMaxComments == 3
\* page requests the environment answers with data before it stops answering
MaxPages == 3
\* entries in the comments array of one page
MaxPageLen == 2

PageSize == 50            \* cursor = data.get('cursor', cursor + 50)
NotFoundCode == 10201     \* if status_code == 10201
DisabledCode == 10204     \* elif status_code == 10204

\* an entry of the comments array: a comment with its user and text, or an entry
\* whose parsing raises (caught at 1151)
ApiEntries ==
    [kind : {"ok"}, user : {"u1"}, text : {"a", ""}]
        \cup {[kind |-> "bad", user |-> "", text |-> ""]}

PageLists == UNION {[1..n -> ApiEntries] : n \in 0..MaxPageLen}

\* what get_comments returns: None (has_data = FALSE: request error, non-200,
\* empty or HTML body, JSON error, lines 1041-1065) or the decoded JSON object.
\* A missing status_code or cursor field is -1.
NoData ==
    [has_data |-> FALSE, status_code |-> -1, status_msg |-> "", comments |-> <<>>,
     has_more |-> 0, cursor |-> -1]

\* scrape() reads status_msg only when status_code is not 0, and comments,
\* has_more and cursor only when it is 0: the fields it does not read are left
\* at their defaults
ApiResponses ==
    {NoData} \cup
    [has_data : {TRUE}, status_code : {NotFoundCode, DisabledCode, -1},
     status_msg : {"", "captcha"}, comments : {<<>>}, has_more : {0}, cursor : {-1}] \cup
    [has_data : {TRUE}, status_code : {0}, status_msg : {""}, comments : PageLists,
     has_more : {0, 1}, cursor : {-1, 7}]

\* lines 1139-1153: the records appended for one page
RECURSIVE ParsePage(_, _)
ParsePage(entries, i) ==
    IF i > Len(entries) THEN <<>>
    ELSE LET e == entries[i]
             rest == ParsePage(entries, i + 1)
         IN  IF e.kind = "bad" THEN rest
             ELSE <<[username |-> e.user, text |-> e.text, likes |-> 0,
                     reply_count |-> 0, create_time |-> 0, cid |-> ""]>> \o rest

\* faulty variant: the cursor of the response is ignored
NextCursorAlwaysAdvances(cur, resp) == cur + PageSize

\* line 1162: cursor = data.get('cursor', cursor + 50)
NextCursor(cur, resp) == IF resp.cursor # -1 THEN resp.cursor ELSE cur + PageSize

\* faulty variant: has_more is not looked at
PageVerdictIgnoresHasMore(resp) ==
    IF ~resp.has_data THEN "break"
    ELSE IF resp.status_code # 0
         THEN (IF resp.status_msg = "captcha" THEN "captcha" ELSE "break")
    ELSE IF resp.comments = <<>> THEN "break"
    ELSE "append_continue"

\* lines 1106-1159: what one response does to the pagination loop
PageVerdict(resp) ==
    IF ~resp.has_data THEN "break"
    ELSE IF resp.status_code # 0
         THEN (IF resp.status_msg = "captcha" THEN "captcha" ELSE "break")
    ELSE IF resp.comments = <<>> THEN "break"
    ELSE IF resp.has_more = 0 THEN "append_break"
    ELSE "append_continue"

ApiEnd(out, why) ==
    /\ pc' = "done"
    /\ outcome' = out
    /\ cause' = why

\* _setup_session, lines 888-893 and 945: False only for a string that is not JSON
SetupSessionOk(shape) == shape # "text"

\* scrape(), lines 1081-1099
ApiStart ==
    /\ pc = "start"
    /\ strategy = "api"
    /\ \/ /\ cookie_data = "none"
          /\ ApiEnd([kind |-> "ScraperException", msg |-> "Cookies required"], "config")
          /\ UNCHANGED apiVars
       \/ /\ cookie_data # "none"
          /\ ~SetupSessionOk(cookie_data)
          /\ ApiEnd([kind |-> "ScraperException", msg |-> "Failed to setup session"], "config")
          /\ UNCHANGED apiVars
       \/ /\ cookie_data # "none"
          /\ SetupSessionOk(cookie_data)
          \* _extract_video_id returns None
          /\ ApiEnd([kind |-> "ScraperException", msg |-> "Could not extract video ID"], "config")
          /\ UNCHANGED apiVars
       \/ /\ cookie_data # "none"
          /\ SetupSessionOk(cookie_data)
          /\ pc' = "api_loop"
          /\ \E m \in 0..MaxMaxComments : max_comments' = m
          /\ all_comments' = <<>>
          /\ cursor' = 0
          /\ UNCHANGED <<session, data, sent, endVars>>
    /\ UNCHANGED <<inputVars, sideVars, chrome_options, domVars>>

\* the answers the API may give to the next request
ResponsesNow(n) == IF n >= MaxPages THEN {NoData} ELSE ApiResponses

\* one evaluation of 'while len(all_comments) < max_comments' and its body,
\* lines 1101-1169
ApiPage ==
    /\ pc = "api_loop"
    /\ \/ /\ Len(all_comments) >= max_comments
          /\ ApiEnd(Returned, "none")
          /\ UNCHANGED apiVars
       \/ /\ Len(all_comments) < max_comments
          /\ sent' = Append(sent, cursor)
          /\ \E d \in ResponsesNow(Len(sent)) :
               LET v == PageVerdict(d)
               IN  /\ data' = d
                   /\ \/ /\ v = "break"
                         /\ ApiEnd(Returned, "none")
                         /\ UNCHANGED <<all_comments, cursor>>
                      \/ /\ v = "captcha"
                         /\ ApiEnd([kind |-> "CaptchaDetectedException",
                                    msg |-> "TikTok requires captcha verification"], "api")
                         /\ UNCHANGED <<all_comments, cursor>>
                      \/ /\ v = "append_break"
                         /\ all_comments' = all_comments \o ParsePage(d.comments, 1)
                         /\ ApiEnd(Returned, "none")
                         /\ UNCHANGED cursor
                      \/ /\ v = "append_continue"
                         /\ all_comments' = all_comments \o ParsePage(d.comments, 1)
                         /\ cursor' = NextCursor(cursor, d)
                         /\ UNCHANGED <<pc, endVars>>
          /\ UNCHANGED <<session, max_comments>>
    /\ UNCHANGED <<inputVars, sideVars, chrome_options, domVars>>

\* TikTokAPIScraper.close(), called by whoever holds the scraper once scrape() is over
ApiClose ==
    /\ pc = "done"
    /\ strategy = "api"
    /\ session = "open"
    /\ session' = "closed"
    /\ UNCHANGED <<inputVars, sideVars, chrome_options, pc, endVars, domVars,
                   max_comments, all_comments, cursor,
                   data, sent>>

----------------------------------------------------------------------------
(* Cookie normalisers: BaseScraper._apply_cookies, TikTokAPIScraper._setup_session *)

\* cookies in one payload
MaxCookies == 2

CookieNames == {"sessionid", "ttwid", ""}

CookieValues == {"v1", ""}

\* an item of a cookie list: an object with name and value ("": missing or
\* empty), or something that is not an object
CookieItems ==
    [kind : {"object"}, name : CookieNames, value : CookieValues]
        \cup {[kind |-> "junk", name |-> "", value |-> ""]}

CookieLists == UNION {[1..n -> CookieItems] : n \in 0..MaxCookies}

\* the payloads a caller can pass: None, a bare list, the envelope
\* {url, cookies: [...]}, the single object {name, value}, an envelope whose
\* 'cookies' is null, a string that is not JSON
Payloads ==
    [shape : {"list", "envelope"}, cookies : CookieLists]
        \cup {[shape |-> "legacy", cookies |-> <<c>>] :
                c \in {i \in CookieItems : i.kind = "object"}}
        \cup {[shape |-> sh, cookies |-> <<>>] : sh \in {"none", "envelope_null", "text"}}

\* the cookies a browser holds before the call
OldJars == {{}, {<<"ttwid", "old">>}, {<<"sessionid", "old">>, <<"ttwid", "old">>}}

\* what the browser refuses: delete_all_cookies, and add_cookie for these items
FaultChoices == [delete : BOOLEAN, add : SUBSET (1..MaxCookies)]

\* line 704: if not cookie_data
Falsy(p) == p.shape = "none" \/ (p.shape = "list" /\ p.cookies = <<>>)

\* faulty variant: the jar is not cleared
JarKept(j) == j

\* line 717: self.driver.delete_all_cookies()
JarAfterDelete(j) == {}

\* add_cookie: the cookie replaces one of the same name
JarWith(j, item) == {c \in j : c[1] # item.name} \cup {<<item.name, item.value>>}

RECURSIVE AddCookies(_, _, _, _)
\* lines 742-760: the loop over the cookies, from item i on; an item that is no
\* object or that the browser refuses is skipped
AddCookies(items, i, acc, refused) ==
    IF i > Len(items) THEN acc
    ELSE AddCookies(items, i + 1,
            IF items[i].kind = "object" /\ i \notin refused
            THEN [jar |-> JarWith(acc.jar, items[i]), log |-> Append(acc.log, "add")]
            ELSE acc,
            refused)

\* _apply_cookies, lines 704-786: the value returned, the jar afterwards and
\* the jar operations performed
ApplyCookiesFn(p, j, f) ==
    IF Falsy(p) \/ p.shape \notin {"list", "envelope", "envelope_null"}
    THEN [ret |-> "False", jar |-> j, log |-> <<>>]
    ELSE IF f.delete
    THEN [ret |-> "False", jar |-> j, log |-> <<>>]
    ELSE LET cleared == [jar |-> JarAfterDelete(j), log |-> <<"clear">>]
         IN  IF p.shape = "envelope_null"
             \* for cookie in None raises TypeError, caught at 784
             THEN [ret |-> "False", jar |-> cleared.jar, log |-> cleared.log]
             ELSE LET done == AddCookies(p.cookies, 1, cleared, f.add)
                  IN  [ret |-> "True", jar |-> done.jar, log |-> done.log]

\* self.cookies[name] = value
DictWith(d, name, value) == {c \in d : c[1] # name} \cup {<<name, value>>}

RECURSIVE SessionCookies(_, _, _)
\* lines 897-901 and 905-909: an item with a name and a value is stored; an
\* item that is no object makes cookie.get raise
SessionCookies(items, i, acc) ==
    IF i > Len(items) \/ acc.ret = "raised" THEN acc
    ELSE LET it == items[i]
         IN  SessionCookies(items, i + 1,
                IF it.kind # "object" THEN [ret |-> "raised", cookies |-> acc.cookies]
                ELSE IF it.name # "" /\ it.value # ""
                     THEN [ret |-> "True", cookies |-> DictWith(acc.cookies, it.name, it.value)]
                     ELSE acc)

\* _setup_session, lines 887-945: the value returned (or "raised") and
\* self.cookies afterwards
SetupSessionFn(p, d) ==
    CASE p.shape = "text" -> [ret |-> "False", cookies |-> d]
      [] p.shape = "none" -> [ret |-> "True", cookies |-> d]
      [] p.shape \in {"list", "envelope"} ->
            SessionCookies(p.cookies, 1, [ret |-> "True", cookies |-> d])
      [] p.shape = "legacy" ->
            [ret |-> "True", cookies |-> DictWith(d, p.cookies[1].name, p.cookies[1].value)]
      \* line 915: self.cookies = cookie_data, the envelope itself
      [] p.shape = "envelope_null" -> [ret |-> "True", cookies |-> {<<"cookies", "null">>}]

\* a cookie payload, the state of the browser's jar and the browser's
\* dispositions, before either normaliser is called
InitCookies ==
    /\ strategy = "tiktok"
    /\ headless = TRUE
    /\ cookie_data = "none"
    /\ max_scroll_count = DefaultMaxScrollCount
    /\ pc = "cookies"
    /\ driver = TRUE
    /\ running = 1
    /\ captcha = FALSE
    /\ outcome = NoOutcome
    /\ cause = "none"
    /\ no_more_scroll = 0
    /\ scroll_count = 0
    /\ bursts = 0
    /\ failRun = 0
    /\ lastMoved = FALSE
    /\ iterChecked = FALSE
    /\ corrective = FALSE
    /\ waited = 0
    /\ max_wait_seconds = 0
    /\ ret = "none"
    /\ rechecks = 0
    /\ sleeps = 0
    /\ captchaHist = "none"
    /\ detected = FALSE
    /\ sinceDetect = {}
    /\ innerDetected = FALSE
    /\ container_cache = "none"
    /\ comment_elements = <<>>
    /\ comments = <<>>
    /\ data_set = {}
    /\ passes = 0
    /\ notified = <<>>
    /\ session = "open"
    /\ max_comments = 0
    /\ all_comments = <<>>
    /\ cursor = 0
    /\ data = NoData
    /\ sent = <<>>
    /\ chrome_options = NoOptions
    /\ payload \in Payloads
    /\ faults \in FaultChoices
    /\ jar \in OldJars
    /\ jar_before = {}
    /\ jar_log = <<>>
    /\ cookies = {}
    /\ call = "none"
    /\ result = "none"
    /\ GrabberIdle
    /\ RouteIdle

scrapeVars == <<inputVars, pc, driverVars, captcha, endVars, loopVars, waitVars,
                detectVars, extractVars, apiVars, chrome_options>>

\* self._apply_cookies(cookie_data), called at 1432 and 2194
ApplyCookiesCall ==
    /\ call = "none"
    /\ LET r == ApplyCookiesFn(payload, jar, faults)
       IN  /\ result' = r.ret
           /\ jar' = r.jar
           /\ jar_log' = r.log
    /\ jar_before' = jar
    /\ call' = "_apply_cookies"
    /\ UNCHANGED <<scrapeVars, grabberVars, routeVars, payload, faults, cookies>>

\* self._setup_session(cookie_data), called at 1086
SetupSessionCall ==
    /\ call = "none"
    /\ LET r == SetupSessionFn(payload, cookies)
       IN  /\ result' = r.ret
           /\ cookies' = r.cookies
    /\ call' = "_setup_session"
    /\ UNCHANGED <<scrapeVars, grabberVars, routeVars, payload, faults, jar, jar_before, jar_log>>

CookieNext == ApplyCookiesCall \/ SetupSessionCall

\* the payloads of a second scrape() on the same TikTokAPIScraper: scrape()
\* raises at 1081-1083 for a falsy one, before _setup_session
SecondPayloads == {p \in Payloads : Len(p.cookies) <= 1 /\ ~Falsy(p)}

\* scrape() is called again on the same instance, lines 1081-1087:
\* self._setup_session(cookie_data) runs on the self.cookies left by the first
SetupSessionAgain ==
    /\ call = "_setup_session"
    /\ result = "True"
    /\ \E p \in SecondPayloads :
         LET r == SetupSessionFn(p, cookies)
         IN  /\ payload' = p
             /\ result' = r.ret
             /\ cookies' = r.cookies
    /\ call' = "_setup_session again"
    /\ UNCHANGED <<scrapeVars, grabberVars, routeVars, faults, jar, jar_before, jar_log>>

\* one TikTokAPIScraper, no browser
InitSession == InitCookies /\ faults = [delete |-> FALSE, add |-> {}] /\ jar = {}

SessionNext == SetupSessionCall \/ SetupSessionAgain

SessionSpec == InitSession /\ [][SessionNext]_vars

CookieSpec == InitCookies /\ [][CookieNext]_vars

----------------------------------------------------------------------------
ScrapeStep ==
    \/ BuildOptions
    \/ Setup
    \/ ApplyCookies
    \/ Navigate
    \/ PreCheck1
    \/ PreCheck2
    \/ PreCheck3
    \/ WaitEntry
    \/ WaitLoop
    \/ WaitSleep
    \/ FbPrepare
    \/ TikTokLoopHead
    \/ FbLoopHead
    \/ Burst
    \/ Extract
    \/ ApiStart
    \/ ApiPage

Next == ScrapeStep \/ EnvCaptcha \/ ApiClose

Spec == Init /\ [][Next]_vars

TypeOK ==
    /\ strategy \in Strategies
    /\ headless \in BOOLEAN
    /\ cookie_data \in CookiePayloads
    /\ max_scroll_count \in MaxScrollChoices
    /\ driver \in BOOLEAN
    /\ running \in 0..1
    /\ captcha \in BOOLEAN
    /\ no_more_scroll \in 0..ConvergenceLimit
    /\ waited \in Nat
    /\ Len(comments) <= MaxNodes


\* The scroll loop on its own: scrape() has launched the browser, applied no
\* cookies, loaded the page and passed the captcha check before the loop.  Its
\* steps are taken one after another (scrape() is a single blocking call), and
\* the scroll source grows for at most MaxBursts bursts.
InitLoop ==
    /\ strategy \in DomStrategies
    /\ headless \in BOOLEAN
    /\ cookie_data = "none"
    /\ max_scroll_count \in MaxScrollChoices
    /\ pc = "loop_head"
    /\ driver = TRUE
    /\ running = 1
    /\ captcha \in BOOLEAN
    /\ outcome = NoOutcome
    /\ cause = "none"
    /\ no_more_scroll = 0
    /\ scroll_count = 0
    /\ bursts = 0
    /\ failRun = 0
    /\ lastMoved = FALSE
    /\ iterChecked = FALSE
    /\ corrective = FALSE
    /\ waited = 0
    /\ max_wait_seconds = 0
    /\ ret = "none"
    /\ rechecks = 0
    /\ sleeps = 0
    /\ captchaHist = "none"
    /\ detected = FALSE
    /\ sinceDetect = {}
    /\ innerDetected = FALSE
    /\ container_cache = "none"
    /\ comment_elements = <<>>
    /\ comments = <<>>
    /\ data_set = {}
    /\ passes = 0
    /\ notified = <<>>
    /\ session = "open"
    /\ max_comments = 0
    /\ all_comments = <<>>
    /\ cursor = 0
    /\ data = [has_data |-> FALSE, status_code |-> -1, status_msg |-> "", comments |-> <<>>,
               has_more |-> 0, cursor |-> -1]
    /\ sent = <<>>
    /\ chrome_options = NoOptions
    /\ CookieIdle
    /\ GrabberIdle
    /\ RouteIdle

LoopStep ==
    \/ TikTokLoopHead
    \/ FbLoopHead
    \/ Burst
    \/ WaitEntry
    \/ WaitLoop
    \/ WaitSleep

LoopNext == LoopStep \/ EnvCaptcha

LoopSpec == InitLoop /\ [][LoopNext]_vars /\ WF_vars(LoopStep)

----------------------------------------------------------------------------
(* Cookie grabber: TikTokCookieGrabber *)

\* browsers the grabber may launch in one behaviour
MaxLaunches == 3

\* no scrape() is in progress
ScrapeIdle ==
    /\ strategy = "tiktok"
    /\ headless = TRUE
    /\ cookie_data = "none"
    /\ max_scroll_count = DefaultMaxScrollCount
    /\ pc = "start"
    /\ driver = FALSE
    /\ running = 0
    /\ captcha = FALSE
    /\ outcome = NoOutcome
    /\ cause = "none"
    /\ no_more_scroll = 0
    /\ scroll_count = 0
    /\ bursts = 0
    /\ failRun = 0
    /\ lastMoved = FALSE
    /\ iterChecked = FALSE
    /\ corrective = FALSE
    /\ waited = 0
    /\ max_wait_seconds = 0
    /\ ret = "none"
    /\ rechecks = 0
    /\ sleeps = 0
    /\ captchaHist = "none"
    /\ detected = FALSE
    /\ sinceDetect = {}
    /\ innerDetected = FALSE
    /\ container_cache = "none"
    /\ comment_elements = <<>>
    /\ comments = <<>>
    /\ data_set = {}
    /\ passes = 0
    /\ notified = <<>>
    /\ session = "open"
    /\ max_comments = 0
    /\ all_comments = <<>>
    /\ cursor = 0
    /\ data = NoData
    /\ sent = <<>>
    /\ chrome_options = NoOptions

\* faulty variant: close() leaves self.driver as it is
CloseKeepsDriver(g, alive) ==
    [grabber |-> [g EXCEPT !.status = "closed"], browsers |-> alive \ {g.driver}]

\* close(), lines 2712-2721: quit the browser held, if any (an exception of
\* quit() is swallowed); self.driver = None; self.status = 'closed'
CloseFn(g, alive) ==
    [grabber |-> [g EXCEPT !.driver = 0, !.status = "closed"],
     browsers |-> alive \ {g.driver}]

\* How start() can go.  _setup_visible_browser (2458-2508) fails before the
\* browser exists (no driver binary, launch refused) or after it (the CDP call
\* at 2500 raises: the local 'driver' is lost); then driver.get(login) at 2526
\* can raise.
StartResults == {"ok", "no_driver", "launch_failed", "post_launch_failed", "get_failed"}

\* the browser process was started
StartLaunches(res) == res \in {"ok", "post_launch_failed", "get_failed"}

\* self.driver = self._setup_visible_browser() was completed (line 2522)
StartHolds(res) == res \in {"ok", "get_failed"}

\* start(), lines 2517-2543
GrabberStart ==
    /\ launches < MaxLaunches
    /\ \E res \in StartResults, u \in UserIds :
         LET c  == IF grabber.driver # 0 THEN CloseFn(grabber, browsers)
                   ELSE [grabber |-> grabber, browsers |-> browsers]
             id == launches + 1
         IN  /\ browsers' = IF StartLaunches(res) THEN c.browsers \cup {id} ELSE c.browsers
             /\ launches' = IF StartLaunches(res) THEN id ELSE launches
             /\ started_by' = IF StartLaunches(res) THEN Append(started_by, u)
                              ELSE started_by
             /\ grabber' = [c.grabber EXCEPT
                               !.driver = IF StartHolds(res) THEN id ELSE @,
                               !.status = IF res = "ok" THEN "waiting" ELSE "error"]
             /\ reply' = [op |-> "start", success |-> res = "ok", touched |-> TRUE]
    /\ UNCHANGED <<scrapeVars, cookieVars, routeVars, calls>>

\* the answer of a method that finds self.driver None (2552, 2610, 2673)
NoBrowserReply(op) == [op |-> op, success |-> FALSE, touched |-> FALSE]

\* check_login_status(), lines 2552-2600: the browser shows a logged-in session
\* (sessionid cookie, not on /login) or not, or a driver call raises
GrabberCheckLogin ==
    /\ \/ /\ grabber.driver = 0
          /\ reply' = NoBrowserReply("check_login_status")
          /\ UNCHANGED grabber
       \/ /\ grabber.driver # 0
          /\ \E res \in {"logged_in", "not_logged_in", "raised"} :
               /\ grabber' = IF res = "logged_in" THEN [grabber EXCEPT !.status = "ready"]
                             ELSE grabber
               /\ reply' = [op |-> "check_login_status", success |-> res # "raised",
                            touched |-> TRUE]
    /\ UNCHANGED <<scrapeVars, cookieVars, routeVars, browsers, launches, started_by, calls>>

\* grab_cookies(), lines 2610-2664: the browser's cookies, wrapped in the
\* envelope, are kept in self.cookies (here: the browser they were read from)
GrabCookiesCall ==
    /\ \/ /\ grabber.driver = 0
          /\ reply' = NoBrowserReply("grab_cookies")
          /\ UNCHANGED grabber
       \/ /\ grabber.driver # 0
          /\ \E res \in {"cookies", "no_cookies", "raised"} :
               /\ grabber' = IF res = "cookies" THEN [grabber EXCEPT !.cookies = grabber.driver]
                             ELSE grabber
               /\ reply' = [op |-> "grab_cookies", success |-> res = "cookies",
                            touched |-> TRUE]
    /\ UNCHANGED <<scrapeVars, cookieVars, browsers, launches, started_by, calls>>

\* grab_cookies() called on its own
GrabberGrabCookies == GrabCookiesCall /\ UNCHANGED routeVars

\* navigate_to_video(), lines 2673-2710
GrabberNavigate ==
    /\ \/ /\ grabber.driver = 0
          /\ reply' = NoBrowserReply("navigate_to_video")
       \/ /\ grabber.driver # 0
          /\ \E res \in {"ok", "raised"} :
               reply' = [op |-> "navigate_to_video", success |-> res = "ok", touched |-> TRUE]
    /\ UNCHANGED <<scrapeVars, cookieVars, routeVars, grabber, browsers, launches,
                   started_by, calls>>

\* close(), lines 2712-2721
GrabberClose ==
    /\ LET c == IF grabber.driver # 0 THEN CloseFn(grabber, browsers)
                ELSE [grabber |-> [grabber EXCEPT !.status = "closed"], browsers |-> browsers]
       IN  /\ grabber' = c.grabber
           /\ browsers' = c.browsers
    /\ reply' = [op |-> "close", success |-> TRUE, touched |-> grabber.driver # 0]
    /\ UNCHANGED <<scrapeVars, cookieVars, routeVars, launches, started_by, calls>>

InitGrabber == ScrapeIdle /\ CookieIdle /\ GrabberIdle /\ RouteIdle

GrabberNext ==
    \/ GrabberStart
    \/ GrabberCheckLogin
    \/ GrabberGrabCookies
    \/ GrabberNavigate
    \/ GrabberClose

\* the grabber's methods called one after another
GrabberSpec == InitGrabber /\ [][GrabberNext]_vars

----------------------------------------------------------------------------
(* The endpoints of routes.py: /cookie-grabber/grab and /scrape *)

\* the columns of the users table that hold the TikTok cookies (models.py 63-65)
UserColumns == {"tiktok_cookie_data", "use_tiktok_cookie"}

\* current_user.<attr> = value; db.session.commit(): an attribute that is no
\* column is set on the request's User object and is not written to the row
SetAttr(row, attr, value) ==
    IF attr \in UserColumns THEN [row EXCEPT ![attr] = value] ELSE row

\* routes.py 833-839: the cookie_data of a TikTok scrape
SelectCookies(row) ==
    IF row.use_tiktok_cookie /\ row.tiktok_cookie_data # NoCookies
    THEN row.tiktok_cookie_data
    ELSE NoCookies

\* the envelope grab_cookies returns, read from the browser the grabber holds
Harvested(g) == [src |-> "grabber", browser |-> g.cookies]

\* routes.py 1589-1612: POST /cookie-grabber/grab by user u
RouteGrabCookies(u) ==
    /\ GrabCookiesCall
    /\ IF reply'.success
       THEN /\ users' = [users EXCEPT ![u] = SetAttr(@, "tiktok_cookies", Harvested(grabber'))]
            /\ harvest' = [user |-> u, cookies |-> Harvested(grabber')]
       ELSE UNCHANGED <<users, harvest>>
    /\ UNCHANGED <<scraping_progress, req>>

\* faulty variant: one cell shared by all callers
UpdateSharedCell(progress, user_id, slot) == [u \in DOMAIN progress |-> slot]

\* scraping_progress[user_id] = {...}: routes.py 691, 827, 884
UpdateScrapingProgress(progress, user_id, slot) == [progress EXCEPT ![user_id] = slot]

\* routes.py 766-785: the caller may not scrape, or the URL is not accepted
ScrapeReject(r) ==
    /\ req[r].pc = "new"
    /\ req' = [req EXCEPT ![r].pc = "rejected"]
    /\ UNCHANGED <<scrapeVars, cookieVars, grabberVars, users, scraping_progress, harvest>>

\* routes.py 825-856: the caller's slot is set to 'running', the cookies are
\* read from the caller's row, the scraper is built with its callback
ScrapeBegin(r) ==
    /\ req[r].pc = "new"
    /\ scraping_progress' =
          UpdateScrapingProgress(scraping_progress, req[r].user,
              [total |-> 0, status |-> "running", message |-> "init"])
    /\ req' = [req EXCEPT ![r].pc = "scraping",
                          ![r].cookie_data = SelectCookies(users[req[r].user])]
    /\ UNCHANGED <<scrapeVars, cookieVars, grabberVars, users, harvest>>

\* what len(comments) can be when the callback is called
ProgressTotals == {1, 2}

\* scraper.py 1649-1651 and 2422-2424, routes.py 689-695 and 856: scrape()
\* calls the callback once, after extraction, when it has found comments
ScrapeNotify(r) ==
    /\ req[r].pc = "scraping"
    /\ \E n \in ProgressTotals :
         /\ scraping_progress' =
               UpdateScrapingProgress(scraping_progress, req[r].user,
                   [total |-> n, status |-> "running", message |-> "scraped"])
         /\ req' = [req EXCEPT ![r].pc = "notified", ![r].total = n]
    /\ UNCHANGED <<scrapeVars, cookieVars, grabberVars, users, harvest>>

\* routes.py 859-899: scrape() has returned, the comments are stored and the
\* slot is set to 'done'
ScrapeReturn(r) ==
    /\ req[r].pc \in {"scraping", "notified"}
    /\ scraping_progress' =
          UpdateScrapingProgress(scraping_progress, req[r].user,
              [total |-> req[r].total, status |-> "done", message |-> "done"])
    /\ req' = [req EXCEPT ![r].pc = "done"]
    /\ UNCHANGED <<scrapeVars, cookieVars, grabberVars, users, harvest>>

\* routes.py 901-951: scrape() raised, or storing the comments did
ScrapeFail(r) ==
    /\ req[r].pc \in {"scraping", "notified"}
    /\ req' = [req EXCEPT ![r].pc = "failed"]
    /\ UNCHANGED <<scrapeVars, cookieVars, grabberVars, users, scraping_progress, harvest>>

\* what a user's row may hold before: nothing, an uploaded file that is
\* switched on, an uploaded file that is switched off
RowChoices ==
    {NoCookieRow} \cup
    [tiktok_cookie_data : {[src |-> "upload", browser |-> 0]}, use_tiktok_cookie : BOOLEAN]

\* users with their rows, and requests not yet handled
InitRoute ==
    /\ ScrapeIdle /\ CookieIdle /\ GrabberIdle
    /\ users \in [UserIds -> RowChoices]
    /\ scraping_progress = [u \in UserIds |-> NoSlot]
    /\ req \in {[r \in Requests |-> NewRequest(f[r])] : f \in [Requests -> UserIds]}
    /\ harvest = [user |-> "none", cookies |-> NoCookies]

\* a user harvests cookies with the grabber and then scrapes
HarvestNext ==
    \/ GrabberStart
    \/ \E u \in UserIds : RouteGrabCookies(u)
    \/ \E r \in Requests : ScrapeBegin(r)

HarvestSpec == InitRoute /\ [][HarvestNext]_vars

\* requests to the scrape endpoint, handled concurrently
ProgressNext ==
    \E r \in Requests :
        \/ ScrapeReject(r)
        \/ ScrapeBegin(r)
        \/ ScrapeNotify(r)
        \/ ScrapeReturn(r)
        \/ ScrapeFail(r)

ProgressSpec == InitRoute /\ [][ProgressNext]_vars

----------------------------------------------------------------------------
(* The body of the Facebook extraction loop on one comment node *)

\* lines of item.text in one node
MaxLines == 3

\* a name, a text, a blank line, a UI label
LineChoices == {"Ann", "hi", "", "Like"}

\* raw_text = item.text.strip() (line 2327) neither starts nor ends with a
\* blank line; <<>> stands for the empty text
RawTexts ==
    {ls \in UNION {[1..n -> LineChoices] : n \in 0..MaxLines} :
        ls # <<>> => (~IsBlank(ls[1]) /\ ~IsBlank(ls[Len(ls)]))}

ItemNodes ==
    [kind : {"comment"}, user : {"ann"}, lines : RawTexts, emoji : {<<>>, <<"smile">>}]

\* one comment node found by _find_comment_elements, the browser up, the scroll
\* loop over
InitItem ==
    /\ strategy = "facebook"
    /\ headless = TRUE
    /\ cookie_data = "none"
    /\ max_scroll_count = DefaultMaxScrollCount
    /\ pc = "item"
    /\ driver = TRUE
    /\ running = 1
    /\ captcha = FALSE
    /\ outcome = NoOutcome
    /\ cause = "none"
    /\ no_more_scroll = 0
    /\ scroll_count = 0
    /\ bursts = 0
    /\ failRun = 0
    /\ lastMoved = FALSE
    /\ iterChecked = FALSE
    /\ corrective = FALSE
    /\ waited = 0
    /\ max_wait_seconds = 0
    /\ ret = "none"
    /\ rechecks = 0
    /\ sleeps = 0
    /\ captchaHist = "none"
    /\ detected = FALSE
    /\ sinceDetect = {}
    /\ innerDetected = FALSE
    /\ container_cache = "none"
    /\ comment_elements \in {<<item>> : item \in ItemNodes}
    /\ comments = <<>>
    /\ data_set = {}
    /\ passes = 0
    /\ notified = <<>>
    /\ session = "open"
    /\ max_comments = 0
    /\ all_comments = <<>>
    /\ cursor = 0
    /\ data = [has_data |-> FALSE, status_code |-> -1, status_msg |-> "", comments |-> <<>>,
               has_more |-> 0, cursor |-> -1]
    /\ sent = <<>>
    /\ chrome_options = NoOptions
    /\ CookieIdle
    /\ GrabberIdle
    /\ RouteIdle

\* lines 2290-2409 for one item of comment_elements: the record is built and
\* appended, or the item is skipped
ExtractItem ==
    /\ pc = "item"
    /\ LET acc == ExtractAll(strategy, comment_elements)
       IN  /\ comments' = acc.comments
           /\ data_set' = acc.data_set
    /\ pc' = "item_done"
    /\ UNCHANGED <<inputVars, sideVars, chrome_options, apiVars, captcha, loopVars,
                   waitVars, detectVars, driverVars, endVars, comment_elements, passes,
                   notified>>

ItemSpec == InitItem /\ [][ExtractItem]_vars

----------------------------------------------------------------------------
(* Properties *)

DomReturned == pc = "done" /\ strategy \in DomStrategies /\ outcome.kind = "returned"

RECURSIVE KeysFrom(_, _, _)
\* the dedup keys of the nodes that yield a record, in stream order
KeysFrom(s, nodes, i) ==
    IF i > Len(nodes) THEN <<>>
    ELSE LET recs == NodeRecords(s, nodes[i])
         IN  (IF recs = {} THEN <<>> ELSE <<KeyOf(CHOOSE r \in recs : TRUE)>>)
                 \o KeysFrom(s, nodes, i + 1)

FirstIndex(seq, k) ==
    CHOOSE i \in 1..Len(seq) : seq[i] = k /\ \A j \in 1..(i - 1) : seq[j] # k

Range(seq) == {seq[i] : i \in 1..Len(seq)}

\* C1: the list returned by a DOM strategy holds no two records with the same
\* (username, content) key, holds every key extracted from the node stream, and
\* keeps the keys in the order of their first occurrence in the stream.
C1_DedupFirstSeen ==
    DomReturned =>
        LET ks  == KeysFrom(strategy, comment_elements, 1)
            out == [i \in 1..Len(comments) |-> KeyOf(comments[i])]
        IN  /\ \A i, j \in 1..Len(out) : i # j => out[i] # out[j]
            /\ Range(out) = Range(ks)
            /\ \A i, j \in 1..Len(out) :
                  i < j => FirstIndex(ks, out[i]) < FirstIndex(ks, out[j])

\* a stream with a repeated key between two different ones was returned
C1_Witness ==
    /\ DomReturned
    /\ Len(comments) = 2
    /\ Len(KeysFrom(strategy, comment_elements, 1)) = 3
    /\ KeyOf(comments[1]) = KeysFrom(strategy, comment_elements, 1)[3]

\* C2 (as claimed): with headless=true, once any captcha check of a DOM strategy
\* has found the challenge present, nothing (sleep, re-poll, refresh) happens
\* before the failure and scrape() ends with CaptchaDetectedException.
C2_AnyDetectionAborts ==
    (headless /\ detected) =>
        /\ sinceDetect = {}
        /\ (pc = "done" => outcome.kind = "CaptchaDetectedException")

\* C2 (amended): with headless=true, once the check made by
\* _wait_for_captcha_if_present itself (line 586) has found the challenge
\* present, scrape() has ended with CaptchaDetectedException and the wait loop
\* was never entered: no sleep and no re-poll followed that detection.
C2_SentinelDetectionAborts ==
    (headless /\ innerDetected) =>
        /\ pc = "done"
        /\ outcome = [kind |-> "CaptchaDetectedException", msg |-> "captcha_headless"]
        /\ rechecks = 0 /\ sleeps = 0 /\ waited = 0

\* headless TikTok scrape with cookies: polled three times, slept and refreshed,
\* then the sentinel found the challenge and aborted
C2_Witness ==
    /\ headless /\ innerDetected
    /\ strategy = "tiktok" /\ cookie_data # "none"
    /\ sinceDetect = {"sleep", "repoll", "refresh"}
    /\ outcome.kind = "CaptchaDetectedException"

\* C3 (as claimed): with headless=false, a challenge that is present when the
\* wait is entered and becomes absent, for good, before max_wait_seconds has
\* elapsed never ends in the timeout failure.
C3_ClearedBeforeCeilingResumes ==
    outcome.msg = "captcha_timeout" => captchaHist # "cleared"

\* C4: with headless=false and a challenge that never clears, the wait loop
\* makes at most ceil(max_wait_seconds / 3) re-checks, one 3-second sleep after
\* each, then raises CaptchaDetectedException; it never returns normally.
C4_WaitState ==
    /\ pc \in WaitLoopPcs =>
          /\ rechecks <= CeilDiv(max_wait_seconds, PollInterval)
          /\ waited = PollInterval * sleeps
          /\ rechecks = sleeps + (IF pc = "w_sleep" THEN 1 ELSE 0)
    /\ outcome.msg = "captcha_timeout" =>
          /\ rechecks = CeilDiv(max_wait_seconds, PollInterval)
          /\ sleeps = rechecks
          /\ waited >= max_wait_seconds
          /\ outcome.kind = "CaptchaDetectedException"

C4_NeverClearedStep ==
    (pc \in WaitLoopPcs /\ captchaHist = "present" /\ captchaHist' # "cleared")
        => (pc' \in WaitLoopPcs \/ (pc' = "done" /\ outcome'.msg = "captcha_timeout"))

C4_BoundedWait == []C4_WaitState /\ [][C4_NeverClearedStep]_vars

\* the default ceiling ran out on a challenge that never cleared: 40 re-checks
C4_Witness ==
    /\ outcome.msg = "captcha_timeout"
    /\ captchaHist = "present"
    /\ max_wait_seconds = DefaultMaxWait
    /\ rechecks = 40

\* C5 (as claimed): in both DOM strategies every iteration of the scroll loop
\* polls the captcha before its burst.
C5_CheckedBeforeEveryBurst == pc = "burst" => iterChecked

\* the scroll loop and the waits called from inside it
InScrollLoop ==
    \/ pc \in {"loop_head", "burst"}
    \/ (pc \in {"w_entry", "w_loop", "w_sleep"} /\ ret = "burst")

\* C6: the scroll loop is left for the extraction pass exactly when three
\* bursts in a row have failed, and a scroll source that stops growing makes
\* the loop end.
C6_ConvergenceState ==
    /\ failRun <= ConvergenceLimit
    /\ InScrollLoop => failRun < ConvergenceLimit
    /\ pc = "extract" => failRun = ConvergenceLimit

C6_ConvergenceTermination == []C6_ConvergenceState /\ (InScrollLoop ~> ~InScrollLoop)

\* the source grew for MaxBursts bursts, then three failed bursts ended the loop
C6_Witness ==
    /\ pc = "extract"
    /\ failRun = ConvergenceLimit
    /\ ~lastMoved

\* C7: no_more_scroll stays in 0..3; a burst that moved sets it to 0, a failed
\* burst adds exactly 1, and the loop breaks to extraction iff it reaches 3.
C7_BurstStep ==
    (pc = "burst" /\ pc' # "burst") =>
        /\ lastMoved' => no_more_scroll' = 0
        /\ ~lastMoved' => no_more_scroll' = no_more_scroll + 1
        /\ (pc' = "extract") <=> (no_more_scroll' = ConvergenceLimit)
        /\ (pc' = "extract") => failRun' >= ConvergenceLimit

C7_FailureCounter == [](no_more_scroll \in 0..ConvergenceLimit) /\ [][C7_BurstStep]_vars

\* two failed bursts, the counter at 2, after the counter had been reset
C7_Witness ==
    /\ pc = "loop_head"
    /\ no_more_scroll = 2
    /\ bursts > 2

\* C8 (as claimed): after a DOM scrape() has returned or raised, no browser
\* process it launched is running and self.driver is None.
C8_BrowserReleased ==
    (pc = "done" /\ strategy \in DomStrategies) => (running = 0 /\ ~driver)

\* C9 (as claimed): after TikTokAPIScraper.scrape has returned or raised, its
\* requests session is closed.
C9_SessionClosedOnExit ==
    (pc = "done" /\ strategy = "api" /\ outcome.kind # "none") => session = "closed"

\* what scrape() raises for a transport or rendering fault during scraping
ScrapeFaultOutcomes == {Handle(f, "none") : f \in DriverFaults}

\* C10 (as claimed): a failure of browser setup reaches the caller as a failure
\* that differs from those raised for transport or rendering faults.
C10_SetupFailureDistinct ==
    (pc = "done" /\ cause = "setup") => outcome \notin ScrapeFaultOutcomes

----------------------------------------------------------------------------
(* Direct API Client *)

ApiDone == pc = "done" /\ strategy = "api"

ApiReturned == ApiDone /\ outcome.kind = "returned"

\* a page request was issued in this step
ApiRequestStep == pc = "api_loop" /\ sent' # sent

\* C11 (as claimed): the list returned by TikTokAPIScraper.scrape holds no two
\* records with the same (username, text).
C11_ApiDeduplicated ==
    ApiReturned =>
        \A i, j \in 1..Len(all_comments) :
            i # j => <<all_comments[i].username, all_comments[i].text>>
                        # <<all_comments[j].username, all_comments[j].text>>

\* the records of the entries of one comments array, in order; an entry whose
\* parsing raises gives no record
RecordsOf(entries) ==
    LET ok == SelectSeq(entries, LAMBDA e : e.kind = "ok")
    IN  [i \in 1..Len(ok) |->
            [username |-> ok[i].user, text |-> ok[i].text, likes |-> 0,
             reply_count |-> 0, create_time |-> 0, cid |-> ""]]

C12_PageStep ==
    ApiRequestStep =>
        /\ sent' = Append(sent, cursor)
        /\ (data'.has_data /\ data'.status_code = 0) =>
              /\ all_comments' = all_comments \o RecordsOf(data'.comments)
              /\ (data'.comments = <<>> \/ data'.has_more = 0) => ApiReturned'

\* C12: page requests are issued one per loop iteration; the records of every
\* page read are appended in order to the result, and the first page whose
\* comments array is empty or whose has_more is falsy ends scrape() with the
\* list collected so far; nothing is requested after scrape() has ended.
C12_PaginationStops ==
    /\ [](sent = <<>> => all_comments = <<>>)
    /\ [][C12_PageStep]_vars
    /\ [][ApiDone => sent' = sent]_vars

\* two pages of one comment each, then an empty page: 2 records, 3 requests
C12_Witness ==
    /\ ApiReturned
    /\ Len(sent) = 3
    /\ data.has_data /\ data.status_code = 0 /\ data.comments = <<>>
    /\ Len(all_comments) = 2

\* C13 (as claimed): TikTokAPIScraper.scrape returns at most max_comments records.
C13_AtMostMaxComments == ApiReturned => Len(all_comments) <= max_comments

\* C14 (as claimed): a page response with a non-zero status_code ends scrape()
\* with a failure, never with a returned list.
C14_NonZeroStatusFails ==
    (ApiDone /\ sent # <<>> /\ data.has_data /\ data.status_code # 0)
        => outcome.kind \notin {"returned", "none"}

\* C15 (as claimed): a page request for which get_comments has no usable
\* response ends scrape() with a ScraperException, never with a returned list.
C15_TransportFaultFails ==
    (ApiDone /\ sent # <<>> /\ ~data.has_data) => outcome.kind = "ScraperException"

C16_CursorStep ==
    ApiRequestStep =>
        /\ sent' = Append(sent, cursor)
        /\ pc' = "api_loop" =>
              cursor' = IF data'.cursor # -1 THEN data'.cursor ELSE cursor + PageSize

\* C16: the first request carries cursor 0; each request carries the current
\* cursor, and after a response that continues pagination the cursor is the
\* response's cursor field when it has one, else the previous cursor plus 50.
C16_CursorChain ==
    /\ [](sent # <<>> => sent[1] = 0)
    /\ [](pc = "api_loop" /\ sent = <<>> => cursor = 0)
    /\ [][C16_CursorStep]_vars

\* a response without cursor, then one with a cursor: requests at 0, 50, 7
C16_Witness ==
    /\ strategy = "api"
    /\ Len(sent) = 3
    /\ sent[2] = PageSize
    /\ sent[3] = 7

----------------------------------------------------------------------------
(* Cookie normalisation and proxy configuration *)

\* the three wire shapes the normalisers are to accept
AcceptedShapes == {"list", "envelope", "legacy"}

\* the payload holds exactly one cookie, with a name and a value: the data
\* that all three shapes can carry
SingleCookie(p) ==
    /\ p.shape \in AcceptedShapes
    /\ Len(p.cookies) = 1
    /\ p.cookies[1].kind = "object"
    /\ p.cookies[1].name # "" /\ p.cookies[1].value # ""

InShape(p, sh) == [shape |-> sh, cookies |-> p.cookies]

\* C17 (as claimed): the same cookie, handed over in any of the three accepted
\* shapes, leaves the same browser jar after _apply_cookies and the same
\* self.cookies after _setup_session.
C17_ShapesNormalizeAlike ==
    SingleCookie(payload) =>
        /\ call = "_apply_cookies" =>
              \A sh \in AcceptedShapes :
                  ApplyCookiesFn(InShape(payload, sh), jar_before, faults).jar = jar
        /\ call = "_setup_session" =>
              \A sh \in AcceptedShapes :
                  SetupSessionFn(InShape(payload, sh), {}).cookies = cookies

\* C18 (as claimed): for a payload in none of the accepted shapes
\* _apply_cookies returns False and the browser's jar is as it was.
C18_RejectedPayloadIsNoOp ==
    (call = "_apply_cookies" /\ payload.shape \notin AcceptedShapes)
        => (result = "False" /\ jar = jar_before)

\* the (name, value) pairs of the objects in the payload
PayloadPairs(p) ==
    {<<p.cookies[i].name, p.cookies[i].value>> :
        i \in {k \in 1..Len(p.cookies) : p.cookies[k].kind = "object"}}

\* C19: when _apply_cookies returns True, the first jar operation was the one
\* clearing of the jar, every later one added a cookie, and the jar holds
\* only cookies of the payload.
C19_JarClearedBeforeAdd ==
    (call = "_apply_cookies" /\ result = "True") =>
        /\ jar_log # <<>>
        /\ jar_log[1] = "clear"
        /\ \A i \in 2..Len(jar_log) : jar_log[i] = "add"
        /\ jar \subseteq PayloadPairs(payload)

\* a jar with old cookies, cleared, then holding a cookie of the payload only
C19_Witness ==
    /\ call = "_apply_cookies" /\ result = "True"
    /\ jar_before = {<<"sessionid", "old">>, <<"ttwid", "old">>}
    /\ jar = {<<"sessionid", "v1">>}

\* C20 (as claimed): a proxy string with a userinfo part gets the proxy-auth
\* extension and no --proxy-server argument; one without gets a --proxy-server
\* argument of host and port and no extension.
C20_CredentialsOnlyThroughExtension ==
    pc = "launch" =>
        /\ chrome_options.proxy \in {"auth", "partial_userinfo"} =>
              (chrome_options.extension /\ chrome_options.proxy_server = "none")
        /\ chrome_options.proxy = "plain" =>
              (~chrome_options.extension /\ chrome_options.proxy_server = "host_port")

\* C21 (as claimed): the scheme the browser is configured to use for the proxy
\* is the scheme of the proxy string, and http for a bare host:port, with
\* credentials as well as without.
C21_ProxySchemeKept ==
    (pc = "launch" /\ chrome_options.proxy # "none") =>
        chrome_options.scheme =
            (IF chrome_options.prefix = "bare" THEN "http" ELSE chrome_options.prefix)

----------------------------------------------------------------------------
(* Result records *)

RecordFields == {"username", "content", "timestamp", "likes"}

WellFormed(rec) == RecordFields \subseteq DOMAIN rec /\ rec.likes \in Int

\* C22 (as claimed): every record of the list a strategy returns has the fields
\* username, content, timestamp and likes, and likes is an integer.
C22_RecordFields ==
    /\ DomReturned => \A i \in 1..Len(comments) : WellFormed(comments[i])
    /\ ApiReturned => \A i \in 1..Len(all_comments) : WellFormed(all_comments[i])

\* the text a record carries: 'content' in a DOM record (a string for TikTok,
\* the list of its parts for Facebook), 'text' in a record of the API client
HasText(s, rec) ==
    CASE s = "tiktok"   -> rec.content # ""
      [] s = "facebook" -> rec.content # <<>>
      [] s = "api"      -> rec.text # ""

\* C23 (as claimed): no record of the list a strategy returns has an empty text.
C23_NoEmptyContent ==
    /\ DomReturned => \A i \in 1..Len(comments) : HasText(strategy, comments[i])
    /\ ApiReturned => \A i \in 1..Len(all_comments) : HasText(strategy, all_comments[i])

----------------------------------------------------------------------------
(* Cookie grabber *)

\* C24 (as claimed): after a start() that reported success, whatever start()
\* calls came before it, exactly one grabber browser is alive, it is the one
\* the grabber holds, and status is 'waiting'.
C24_StartReplacesSession ==
    (reply.op = "start" /\ reply.success) =>
        /\ grabber.driver # 0
        /\ browsers = {grabber.driver}
        /\ grabber.status = "waiting"

GrabberQueries == {"check_login_status", "grab_cookies", "navigate_to_video"}

C25_ClosedStep ==
    /\ reply'.op = "close" => browsers' = browsers \ {grabber.driver}
    /\ (grabber.status = "closed" /\ reply'.op \in GrabberQueries) =>
          /\ ~reply'.success /\ ~reply'.touched
          /\ UNCHANGED <<grabber, browsers, launches>>
    /\ (reply.op = "close" /\ reply'.op = "close") =>
          UNCHANGED <<grabber, browsers, launches>>

\* C25: after close(), from any state, driver is None, status is 'closed' and
\* the browser that was held is no longer alive; while status is 'closed'
\* (until the next start) the three queries answer success=False without
\* launching or touching a browser, and a close() after a close() changes
\* nothing.
C25_CloseReleases ==
    /\ [](reply.op = "close" => (grabber.driver = 0 /\ grabber.status = "closed"))
    /\ [](grabber.status = "closed" => grabber.driver = 0)
    /\ [][C25_ClosedStep]_vars

\* a browser was launched and logged in, close() quit it, and a query made
\* afterwards was answered without a browser
C25_Witness ==
    /\ grabber.status = "closed"
    /\ grabber.driver = 0
    /\ launches = 1
    /\ browsers = {}
    /\ grabber.cookies = 1
    /\ reply = [op |-> "grab_cookies", success |-> FALSE, touched |-> FALSE]

----------------------------------------------------------------------------
(* The endpoints *)

\* request r is handled in this step
Acts(r) == req'[r] # req[r]

\* C26 (as claimed): a TikTok scrape that a user starts after their successful
\* harvest, with no harvest in between, passes the harvested cookie set to
\* the scraping strategy.
C26_HarvestedCookiesUsed ==
    [][\A r \in Requests :
          (Acts(r) /\ req'[r].pc = "scraping" /\ harvest.user = req[r].user)
              => req'[r].cookie_data = harvest.cookies]_vars

\* the invocation of request r is between its first progress write and its end
InFlight(r) == req[r].pc \in {"scraping", "notified"}

\* C27 (as claimed): every progress write goes to the slot of the writing
\* invocation's caller, and no invocation's write changes the progress observed
\* for another invocation that is in flight.
C27_NoCrossInvocation ==
    [][\A r, o \in Requests :
          (r # o /\ Acts(r) /\ InFlight(o))
              => scraping_progress'[req[o].user] = scraping_progress[req[o].user]]_vars

C27_WriteStep(r) ==
    Acts(r) =>
        /\ \A u \in UserIds \ {req[r].user} : scraping_progress'[u] = scraping_progress[u]
        /\ req'[r].pc \in {"scraping", "notified", "done"} =>
              /\ scraping_progress'[req[r].user].total = req'[r].total
              /\ scraping_progress'[req[r].user].status =
                    (IF req'[r].pc = "done" THEN "done" ELSE "running")
        /\ req'[r].pc \in {"rejected", "failed"} => scraping_progress' = scraping_progress

\* C27 (amended): every progress write goes to the slot of the writing
\* invocation's caller and carries that invocation's total and status, and no
\* invocation's write changes the slot of another caller.
C27_WritesOwnSlot == [][\A r \in Requests : C27_WriteStep(r)]_vars

\* two callers scraping at once: u1's invocation has reported 2 comments and is
\* running while u2's has finished with 1
C27_Witness ==
    /\ req[1].user = "u1" /\ req[1].pc = "notified"
    /\ req[2].user = "u2" /\ req[2].pc = "done"
    /\ scraping_progress["u1"] = [total |-> 2, status |-> "running", message |-> "scraped"]
    /\ scraping_progress["u2"] = [total |-> 1, status |-> "done", message |-> "done"]

\* C28 (as claimed): when scrape() is called a second time on the same
\* TikTokAPIScraper with another cookie payload, the cookies it sends are
\* exactly those the second payload gives on a fresh instance.
C28_NoCookieCarryOver ==
    (call = "_setup_session again" /\ result = "True")
        => cookies = SetupSessionFn(payload, {}).cookies

----------------------------------------------------------------------------
(* Scroll loop and extraction pass *)

\* C29 (as claimed): in both DOM strategies, when a burst is about to measure
\* scroll progress and the burst before it failed, the corrective maneuver has
\* run in between.
C29_CorrectiveAfterFailedBurst ==
    (pc = "burst" /\ failRun > 0 /\ (strategy = "facebook" => container_cache # "none"))
        => corrective

C30_ExtractionStep ==
    /\ passes' # passes => (pc = "extract" /\ pc' = "done")
    /\ passes = 1 => UNCHANGED <<loopVars, extractVars, pc>>

\* C30: in a DOM scrape no comment node is read and the callback is not called
\* while scrape() has not ended; the extraction pass runs at most once, only
\* from the exit of the scroll loop with the failure counter at 3; after it
\* nothing scrolls; the callback is called at most once, after the pass, with
\* the length of the returned list.
C30_ExtractionAfterConvergence ==
    /\ [](pc # "done" =>
            (passes = 0 /\ comment_elements = <<>> /\ comments = <<>> /\ notified = <<>>))
    /\ [](passes \in {0, 1})
    /\ [](passes = 1 => (DomReturned /\ no_more_scroll = ConvergenceLimit))
    /\ [](DomReturned => passes = 1)
    /\ [](notified # <<>> => (passes = 1 /\ notified = <<Len(comments)>>))
    /\ [][C30_ExtractionStep]_vars

\* bursts that moved, three failed bursts, one pass that found two comments
C30_Witness ==
    /\ DomReturned
    /\ passes = 1
    /\ no_more_scroll = ConvergenceLimit
    /\ Len(comment_elements) = 3
    /\ notified = <<2>>


----------------------------------------------------------------------------
\* C31: in the Facebook scroll loop an iteration that starts with a cached
\* scroll container, whatever the browser says of it (displayed, hidden or
\* detached), goes on to the scroll burst, scanning again when the container
\* is stale; it never ends scrape() with a failure.
C31_StaleContainerRescanned ==
    [][(pc = "loop_head" /\ strategy = "facebook" /\ container_cache # "none")
          => pc' = "burst"]_vars

\* C32: the scroll-convergence loop has a ceiling: while the loop runs, the
\* bursts made so far never exceed the configured max_scroll_count, also for
\* a scroll source that grows on every burst.
C32_ScrollCeiling == InScrollLoop => bursts <= max_scroll_count

\* the node handled by the one-item extraction, its surviving lines and the
\* content of the record built from it
ItemBuilt == pc = "item_done" /\ comments # <<>>
ItemClean == SelectSeq(comment_elements[1].lines, LAMBDA l : ~IsJunkLine(l))
ItemEmoji == comment_elements[1].emoji
ItemContent == comments[1].content
NonBlank(parts) == SelectSeq(parts, LAMBDA l : ~IsBlank(l))

\* C33 (as claimed): with n >= 2 surviving lines the content is lines 2..n in
\* order followed by the emoji alt texts; with n <= 1 no line is used and the
\* content is the emoji alt texts or, without any, the media placeholder.
C33_ContentLines ==
    ItemBuilt =>
        /\ Len(ItemClean) >= 2 => ItemContent = Tail(ItemClean) \o ItemEmoji
        /\ Len(ItemClean) <= 1 =>
               ItemContent = IF ItemEmoji = <<>> THEN MediaPlaceholder ELSE ItemEmoji

\* C33 (amended): with n >= 2 surviving lines the first line is dropped and the
\* content is lines 2..n in order followed by the emoji alt texts with the blank
\* lines at either end trimmed, or the media placeholder when nothing but blank
\* lines is left; with n <= 1 no line is used and the content is the emoji alt
\* texts or, without any, the media placeholder.
C33_ContentLinesTrimmed ==
    ItemBuilt =>
        /\ Len(ItemClean) >= 2 =>
               LET body == Tail(ItemClean) \o ItemEmoji
               IN  /\ NonBlank(body) = <<>> => ItemContent = MediaPlaceholder
                   /\ NonBlank(body) # <<>> =>
                          /\ NonBlank(ItemContent) = NonBlank(body)
                          /\ ~IsBlank(ItemContent[1])
                          /\ ~IsBlank(ItemContent[Len(ItemContent)])
                          /\ \E i, j \in 1..Len(body) : ItemContent = SubSeq(body, i, j)
        /\ Len(ItemClean) <= 1 =>
               ItemContent = IF ItemEmoji = <<>> THEN MediaPlaceholder ELSE ItemEmoji

\* a name, a blank line and a label: two lines survive, the second one blank,
\* and the record carries the placeholder
C33_Witness ==
    /\ ItemBuilt
    /\ comment_elements[1].lines = <<"Ann", "", "Like">>
    /\ ItemEmoji = <<>>
    /\ ItemContent = MediaPlaceholder

----------------------------------------------------------------------------
(* TikTokAPIScraper.scrape from its entry to the first page request *)

\* line 918: required = ['sessionid', 'msToken']
RequiredCookies == {"sessionid", "msToken"}

\* lines 1081-1104 after _setup_session returned True, with a URL that holds a
\* video id: cookie_data is truthy, the session was set up, max_comments is at
\* least 1, so the while loop is entered and get_comments sends the request of
\* the first page with cursor 0.  The check of the required cookies at 917-922
\* only logs a warning.
FirstPageRequest ==
    /\ call = "_setup_session"
    /\ result = "True"
    /\ ~Falsy(payload)
    /\ \E m \in 1..MaxMaxComments : max_comments' = m
    /\ sent' = <<0>>
    /\ call' = "get_comments"
    /\ UNCHANGED <<inputVars, pc, driverVars, captcha, endVars, loopVars, waitVars,
                   detectVars, extractVars, chrome_options, session, all_comments,
                   cursor, data, grabberVars, routeVars, payload, faults, jar,
                   jar_before, jar_log, cookies, result>>

TokenNext == SetupSessionCall \/ FirstPageRequest

TokenSpec == InitSession /\ [][TokenNext]_vars

\* C34: a comment-list page request is issued only when the cookies of the
\* session hold sessionid or msToken.
C34_TokensRequired ==
    sent # <<>> => \E c \in cookies : c[1] \in RequiredCookies

\* C35: every iteration of the pagination loop that does not stop pagination
\* strictly increases the number of collected comments, so no more than
\* max_comments page requests are issued.
C35_PageStep ==
    (pc = "api_loop" /\ pc' = "api_loop") => Len(all_comments') > Len(all_comments)

C35_PaginationTerminates ==
    /\ [](strategy = "api" => Len(sent) <= max_comments)
    /\ [][C35_PageStep]_vars

\* C36: once an invocation of the scrape endpoint has ended, with success or
\* with a failure, and no other invocation of the same caller is in progress,
\* the caller's progress slot does not have status 'running'.
C36_SlotLeavesRunning ==
    \A r \in Requests :
        (/\ req[r].pc \in {"done", "failed"}
         /\ \A q \in Requests \ {r} : req[q].user = req[r].user => ~InFlight(q))
            => scraping_progress[req[r].user].status # "running"

\* C37: a launch profile in which the proxy-auth extension is registered does
\* not also carry the --disable-extensions argument, headless or not.
C37_ExtensionNotDisabled ==
    (pc = "launch" /\ chrome_options.extension) => ~chrome_options.disable_extensions

\* C38: whatever sequence of start, check_login_status, grab_cookies,
\* navigate_to_video and close has run, the grabber holds a browser exactly
\* when its status is 'waiting' or 'ready'.
C38_DriverIffStatus ==
    (grabber.driver # 0) <=> (grabber.status \in {"waiting", "ready"})

----------------------------------------------------------------------------
(* Concurrent requests to /cookie-grabber/start and /cookie-grabber/close *)

\* The development server handles each request in its own thread and the
\* endpoints (routes.py 1548-1564, 1635-1652) call the singleton's methods
\* without a lock.  A thread can be suspended wherever a method waits for the
\* browser: between the test of self.driver, driver.quit(), the launch in
\* _setup_visible_browser, the assignment of self.driver and driver.get().
\* Every launch and every navigation succeeds here.

\* the calls of start() that have not launched their browser yet
PendingLaunches ==
    {t \in Threads : calls[t].op = "start" /\ calls[t].pc \notin {"idle", "s_assign", "s_get"}}

RaceFrame == UNCHANGED <<scrapeVars, cookieVars, routeVars, reply>>

\* POST /cookie-grabber/start by user u: grabber.start() is entered
CallStart(t, u) ==
    /\ calls[t].pc = "idle"
    /\ launches + Cardinality(PendingLaunches) < MaxLaunches
    /\ calls' = [calls EXCEPT ![t] = [op |-> "start", pc |-> "s_check", local |-> 0,
                                      user |-> u]]
    /\ RaceFrame
    /\ UNCHANGED <<grabber, browsers, launches, started_by>>

\* POST /cookie-grabber/close by user u: grabber.close() is entered
CallClose(t, u) ==
    /\ calls[t].pc = "idle"
    /\ calls' = [calls EXCEPT ![t] = [op |-> "close", pc |-> "c_check", local |-> 0,
                                      user |-> u]]
    /\ RaceFrame
    /\ UNCHANGED <<grabber, browsers, launches, started_by>>

\* start(), line 2518: if self.driver: self.close()
StartCheck(t) ==
    /\ calls[t].pc = "s_check"
    /\ calls' = [calls EXCEPT ![t].pc = IF grabber.driver # 0 THEN "c_check" ELSE "s_launch"]
    /\ RaceFrame
    /\ UNCHANGED <<grabber, browsers, launches, started_by>>

\* close(), line 2714: if self.driver
CloseCheck(t) ==
    /\ calls[t].pc = "c_check"
    /\ calls' = [calls EXCEPT ![t].pc = IF grabber.driver # 0 THEN "c_quit" ELSE "c_status"]
    /\ RaceFrame
    /\ UNCHANGED <<grabber, browsers, launches, started_by>>

\* close(), lines 2715-2718: self.driver.quit() on what self.driver is now;
\* when another thread has set it to None the call raises and the bare except
\* swallows it
CloseQuit(t) ==
    /\ calls[t].pc = "c_quit"
    /\ browsers' = browsers \ {grabber.driver}
    /\ calls' = [calls EXCEPT ![t].pc = "c_clear"]
    /\ RaceFrame
    /\ UNCHANGED <<grabber, launches, started_by>>

\* close(), line 2719: self.driver = None
CloseClear(t) ==
    /\ calls[t].pc = "c_clear"
    /\ grabber' = [grabber EXCEPT !.driver = 0]
    /\ calls' = [calls EXCEPT ![t].pc = "c_status"]
    /\ RaceFrame
    /\ UNCHANGED <<browsers, launches, started_by>>

\* close(), line 2720: self.status = 'closed'; close() returns, to start() or
\* to the endpoint
CloseStatus(t) ==
    /\ calls[t].pc = "c_status"
    /\ grabber' = [grabber EXCEPT !.status = "closed"]
    /\ calls' = [calls EXCEPT ![t] = IF calls[t].op = "start"
                                     THEN [@ EXCEPT !.pc = "s_launch"]
                                     ELSE IdleCall]
    /\ RaceFrame
    /\ UNCHANGED <<browsers, launches, started_by>>

\* start(), line 2522, right-hand side: _setup_visible_browser() launches a
\* browser and returns it
StartLaunch(t) ==
    /\ calls[t].pc = "s_launch"
    /\ LET id == launches + 1
       IN  /\ browsers' = browsers \cup {id}
           /\ launches' = id
           /\ started_by' = Append(started_by, calls[t].user)
           /\ calls' = [calls EXCEPT ![t].pc = "s_assign", ![t].local = id]
    /\ RaceFrame
    /\ UNCHANGED grabber

\* start(), lines 2522-2523: self.driver = <the browser>; self.status = 'waiting'
StartAssign(t) ==
    /\ calls[t].pc = "s_assign"
    /\ grabber' = [grabber EXCEPT !.driver = calls[t].local, !.status = "waiting"]
    /\ calls' = [calls EXCEPT ![t].pc = "s_get"]
    /\ RaceFrame
    /\ UNCHANGED <<browsers, launches, started_by>>

\* start(), lines 2526-2543: self.driver.get(login) on what self.driver is now;
\* on None it raises and the except clause sets status 'error'
StartGet(t) ==
    /\ calls[t].pc = "s_get"
    /\ grabber' = IF grabber.driver = 0 THEN [grabber EXCEPT !.status = "error"] ELSE grabber
    /\ calls' = [calls EXCEPT ![t] = IdleCall]
    /\ RaceFrame
    /\ UNCHANGED <<browsers, launches, started_by>>

RaceNext ==
    \E t \in Threads :
        \/ \E u \in UserIds : CallStart(t, u)
        \/ \E u \in UserIds : CallClose(t, u)
        \/ StartCheck(t)
        \/ CloseCheck(t)
        \/ CloseQuit(t)
        \/ CloseClear(t)
        \/ CloseStatus(t)
        \/ StartLaunch(t)
        \/ StartAssign(t)
        \/ StartGet(t)

RaceSpec == InitGrabber /\ [][RaceNext]_vars

\* C39: with start and close requests running concurrently on the singleton, at
\* most one grabber browser is alive at any time, and once no request is in
\* progress every browser that is alive is the one the grabber references.
C39_OneBrowserAlive ==
    /\ Cardinality(browsers) <= 1
    /\ (\A t \in Threads : calls[t].pc = "idle") => browsers \subseteq {grabber.driver}

\* C40: the cookies the harvest endpoint returns to a user come from a browser
\* that a request of this same user launched.
C40_HarvestFromOwnSession ==
    harvest.user # "none" => started_by[harvest.cookies.browser] = harvest.user
====
